---- MODULE Spec2Model ----
(***************************************************************************)
(* ReadingListAutoSummary: the entry lifecycle reconciler                  *)
(* (src/backend/background.ts), the settings loader                        *)
(* (src/common/chrome_storage.ts), the content extractor with its retry    *)
(* executor (src/backend/content_extractor.ts), the summarizer and the     *)
(* Slack message formats (src/backend/summarizer.ts), the webhook post     *)
(* (src/backend/post.ts) and the alarm listener (src/backend/alarm.ts).    *)
(*                                                                         *)
(* The specifications of this module:                                      *)
(*   SpecEval       the pure eligibility predicates applied to one entry   *)
(*   Spec           one reconciliation pass (processReadingListEntries)    *)
(*   SpecExtract    one extractContent call with its retry loop            *)
(*   SpecSummarize  one summarizeContent call with its retry loop          *)
(*   SpecRetry      either retry loop, run on its own                      *)
(*   SpecTriggers   passes started by alarm firings, interleaved           *)
(*   SpecPost       one postToSlack call                                   *)
(*   SpecFormat     one formatSlackMessage call                            *)
(*   SpecMessages   one message delivered to the runtime.onMessage         *)
(*                  listener                                               *)
(*   SpecRepeat     passes run one after the other on the same store       *)
(*   SpecLive       one pass whose awaited calls all settle (weak fairness)*)
(*   SpecAlarm      interleaved setupAlarm calls and alarm deliveries      *)
(* Japanese message texts of the source are written as ASCII tags; the     *)
(* tag's definition names the source text it stands for.                   *)
(***************************************************************************)
EXTENDS Integers, Sequences, FiniteSets, TLC

VARIABLES
  \* --- SpecEval: one application of shouldMarkAsRead / shouldDelete
  evEntry, evDays, evNow, evMark, evMarkDone, evDel, evDelDone,
  \* --- Spec: one pass of processReadingListEntries
  list,       \* the reading-list store (chrome.readingList), in query order
  settings,   \* const settings = await getSettings()
  entries,    \* const entries = await getReadingListEntries()
  toMark,     \* entriesToMarkAsRead
  toDel,      \* entriesToDelete
  pc,         \* the await the pass is suspended at
  idx,        \* position of the current entry in the loop being run
  pending,    \* text of the Slack message about to be posted, << >> if none
  log,        \* external calls completed so far, in order
  raised,     \* TRUE iff processReadingListEntries rejected to its caller
  \* --- SpecExtract: one extractContent(url, config) call
  xurl,       \* the page to extract
  xcfg,       \* the ExtractContentConfig
  xpc,        \* "call", "attempt" (operation in flight), "delay", "done"
  attempt,    \* the loop counter of retryWithExponentialBackoff
  lastError,  \* its lastError
  opCalls,    \* number of invocations of the operation
  ops,        \* outcome of each invocation, in order
  nets,       \* what the network answered to each invocation, in order
  fetches,    \* HTTP requests issued, in order
  delays,     \* backoff delays waited (ms), in order
  retryOut,   \* how retryWithExponentialBackoff settled
  xout,       \* how extractContent settled
  \* --- SpecSummarize: one summarizeContent(title, url, content, config) call
  spc,        \* "call", "attempt" (completion in flight), "delay", "done"
  sattempt,   \* the loop counter of summarizeContent
  scalls,     \* number of client.chat.completions.create calls
  sresps,     \* what the completion API answered to each call, in order
  sdelays,    \* backoff delays waited (ms), in order
  sout,       \* how summarizeContent settled
  \* --- SpecTriggers: passes started by alarm firings
  tpc,        \* per pass: the await it is suspended at
  tleft,      \* per pass: entries of its two sets not yet started
  treq,       \* per pass: the calls it has issued that have not settled
  tlast,      \* per pass: outcome of the call that settled last
  tnth,       \* per pass: 0, 1 at its first entry, 2 at a later one
  \* --- SpecPost: one postToSlack(webhookUrl, message) call
  purl,       \* webhookUrl
  pmsg,       \* message
  ppc,        \* "call", "fetch" (request in flight), "done"
  pfetches,   \* HTTP requests issued, in order
  pnet,       \* what the network answered
  pout,       \* how postToSlack settled
  \* --- SpecFormat: one formatSlackMessage(title, url, modelName, summary)
  fmTitle, fmUrl, fmModel, fmSummary,
  fmpc,       \* "call", "done"
  fmOut,      \* the string returned, as its pieces
  \* --- SpecMessages: one message delivered to the runtime.onMessage listener
  mreq,       \* the request
  mpc,        \* "listen", the handler awaited, "done"
  mret,       \* what the listener returned: "none" before, "true", "false"
  msettings,  \* the settings the handler loaded
  mresp,      \* the responses passed to sendResponse, in order
  mpasses,    \* processReadingListEntries invocations the listener started
  \* --- chrome.storage.local
  stored,     \* what the storage read of the pass's getSettings() answered
  \* --- SpecRepeat: passes run one after the other on the same store
  runs,       \* the pass being run: 1 is the first
  marked,     \* urls whose updateEntry succeeded in an earlier pass
  notified,   \* urls whose postToSlack succeeded in an earlier pass
  \* --- SpecAlarm: setupAlarm calls and alarm deliveries
  alarms,     \* chrome.alarms: the alarms registered
  acfg,       \* chrome.storage.local: the stored alarmIntervalMinutes
  apc,        \* per setupAlarm call: the await it is suspended at
  aint,       \* per call: intervalMinutes
  aread,      \* per call: how its storage read went: "none", "ok", "rejected"
  adelivered, \* names of the alarms delivered to the onAlarm listener
  astarted    \* processReadingListEntries invocations the listener made

evalVars == <<evEntry, evDays, evNow, evMark, evMarkDone, evDel, evDelDone>>
passVars == <<list, settings, entries, toMark, toDel, pc, idx, pending, log,
              raised>>
extractVars == <<xurl, xcfg, xpc, attempt, lastError, opCalls, ops, nets,
                 fetches, delays, retryOut, xout>>
summarizeVars == <<spc, sattempt, scalls, sresps, sdelays, sout>>
triggerVars == <<tpc, tleft, treq, tlast, tnth>>
postVars == <<purl, pmsg, ppc, pfetches, pnet, pout>>
formatVars == <<fmTitle, fmUrl, fmModel, fmSummary, fmpc, fmOut>>
messageVars == <<mreq, mpc, mret, msettings, mresp, mpasses>>
storageVars == <<stored>>
repeatVars == <<runs, marked, notified>>
alarmVars == <<alarms, acfg, apc, aint, aread, adelivered, astarted>>
vars == <<evalVars, passVars, extractVars, summarizeVars,
         triggerVars, postVars, formatVars, messageVars,
         storageVars, repeatVars, alarmVars>>

(***************************************************************************)
(* Bounds of the model                                                     *)
(***************************************************************************)
MaxDays == 3      \* SpecEval: thresholds 1..MaxDays, ages up to MaxDays days
MaxEntries == 3   \* Spec: entries in the reading list
MaxPasses == 2    \* SpecTriggers: passes that can be in flight together
MaxSnapshot == 1  \* SpecTriggers: entries in each set of a pass
MaxRuns == 2      \* SpecRepeat: passes run one after the other
MaxSetups == 2    \* SpecAlarm: setupAlarm calls (onInstalled, onStartup)
MaxFirings == 2   \* SpecAlarm: alarms delivered to the listener

(***************************************************************************)
(* Entry Eligibility Evaluator (background.ts 148-177)                     *)
(***************************************************************************)
MS_PER_DAY == 1000 * 60 * 60 * 24

DELETION_DISABLED_VALUE == -1

\* (now - t) / MS_PER_DAY >= days, the division being the real (double)
\* quotient of the source.  The thresholds are integers, so the quotient
\* reaches the threshold exactly when its integer part (its floor) does; the
\* nearest quotient below an integer d is d - 1/MS_PER_DAY, far from d at
\* double precision, so rounding never moves a quotient onto the threshold.
DaysSinceAtLeast(now, t, days) == ((now - t) \div MS_PER_DAY) >= days

shouldMarkAsRead_strict(entry, daysUntilRead, now) ==
  IF entry.hasBeenRead
    THEN FALSE
    ELSE (now - entry.creationTime) > daysUntilRead * MS_PER_DAY

shouldMarkAsRead_ignoreRead(entry, daysUntilRead, now) ==
  DaysSinceAtLeast(now, entry.creationTime, daysUntilRead)

shouldMarkAsRead(entry, daysUntilRead, now) ==
  IF entry.hasBeenRead
    THEN FALSE
    ELSE DaysSinceAtLeast(now, entry.creationTime, daysUntilRead)

shouldDelete_byCreation(entry, daysUntilDelete, now) ==
  IF ~entry.hasBeenRead
    THEN FALSE
    ELSE DaysSinceAtLeast(now, entry.creationTime, daysUntilDelete)

shouldDelete_ignoreRead(entry, daysUntilDelete, now) ==
  DaysSinceAtLeast(now, entry.lastUpdateTime, daysUntilDelete)

shouldDelete(entry, daysUntilDelete, now) ==
  IF ~entry.hasBeenRead
    THEN FALSE
    ELSE DaysSinceAtLeast(now, entry.lastUpdateTime, daysUntilDelete)

(***************************************************************************)
(* SpecEval: the predicates applied to one entry drawn from bounded sets   *)
(***************************************************************************)
EvalNow == (MaxDays + 2) * MS_PER_DAY

\* ages on, one millisecond before and one millisecond after each day mark
EvalAges == {k * MS_PER_DAY + o : k \in 0..MaxDays, o \in {-1, 0, 1}}

EvalTimes == {EvalNow - a : a \in EvalAges}

EvalThresholds == {DELETION_DISABLED_VALUE} \cup (1..MaxDays)

EvalEntries ==
  {e \in [hasBeenRead : BOOLEAN, creationTime : EvalTimes,
          lastUpdateTime : EvalTimes] : e.lastUpdateTime >= e.creationTime}

EvalInit ==
  /\ evNow = EvalNow
  /\ evDays \in EvalThresholds
  /\ evEntry \in EvalEntries
  /\ evMark = FALSE /\ evMarkDone = FALSE
  /\ evDel = FALSE /\ evDelDone = FALSE

EvalMarkAsRead ==
  /\ ~evMarkDone
  /\ evMark' = shouldMarkAsRead(evEntry, evDays, evNow)
  /\ evMarkDone' = TRUE
  /\ UNCHANGED <<evEntry, evDays, evNow, evDel, evDelDone>>
  /\ UNCHANGED <<passVars, extractVars, summarizeVars, triggerVars,
                 postVars, formatVars, messageVars, storageVars,
                 repeatVars, alarmVars>>

EvalDelete ==
  /\ ~evDelDone
  /\ evDel' = shouldDelete(evEntry, evDays, evNow)
  /\ evDelDone' = TRUE
  /\ UNCHANGED <<evEntry, evDays, evNow, evMark, evMarkDone>>
  /\ UNCHANGED <<passVars, extractVars, summarizeVars, triggerVars,
                 postVars, formatVars, messageVars, storageVars,
                 repeatVars, alarmVars>>

(***************************************************************************)
(* Settings store (chrome_storage.ts, later revision: unnamed/part_012)    *)
(***************************************************************************)
DEFAULT_MAX_ENTRIES_PER_RUN == 3

DEFAULT_DAYS_UNTIL_READ == 30

\* An optional stored value: << >> is undefined, <<v>> is the value v.
\* String settings are only ever tested for truthiness by the pass, so ""
\* stands for both a missing key and an empty string.
Nullish(opt, dflt) == IF opt = << >> THEN dflt ELSE opt[1]

DEFAULT_SETTINGS ==
  [daysUntilRead |-> DEFAULT_DAYS_UNTIL_READ,
   daysUntilDelete |-> DELETION_DISABLED_VALUE,
   maxEntriesPerRun |-> DEFAULT_MAX_ENTRIES_PER_RUN,
   openaiEndpoint |-> "", openaiApiKey |-> "", openaiModel |-> "",
   slackWebhookUrl |-> "", firecrawlApiKey |-> ""]

\* What chrome.storage.local.get can answer: a rejection, or the stored keys.
\* (alarmIntervalMinutes and systemPrompt are not read by the pass.)
StorageResults ==
  [rejected : {TRUE}, daysUntilRead : {<< >>}, daysUntilDelete : {<< >>},
   maxEntriesPerRun : {<< >>}, openaiEndpoint : {""}, openaiApiKey : {""},
   openaiModel : {""}, slackWebhookUrl : {""}, firecrawlApiKey : {""}]
  \cup
  [rejected : {FALSE}, daysUntilRead : {<< >>, <<2>>},
   daysUntilDelete : {<< >>, <<4>>, <<DELETION_DISABLED_VALUE>>},
   maxEntriesPerRun : {<< >>, <<1>>},
   openaiEndpoint : {"", "https://api.openai.com/v1"},
   openaiApiKey : {"", "sk-key"}, openaiModel : {"", "gpt-4o-mini"},
   slackWebhookUrl : {"", "https://hooks.slack.com/test"},
   firecrawlApiKey : {"", "fc-key"}]

\* getSettings without the catch at 75-78
getSettings_rethrow(result) ==
  [threw |-> result.rejected, value |-> DEFAULT_SETTINGS]

\* getSettings (45-79): [threw, value]; the catch at 75-78 turns a rejection
\* of the storage read into DEFAULT_SETTINGS, so threw is FALSE on every path.
getSettings(result) ==
  IF result.rejected
    THEN [threw |-> FALSE, value |-> DEFAULT_SETTINGS]
    ELSE [threw |-> FALSE,
          value |->
            [daysUntilRead |->
               Nullish(result.daysUntilRead, DEFAULT_SETTINGS.daysUntilRead),
             daysUntilDelete |->
               Nullish(result.daysUntilDelete,
                       DEFAULT_SETTINGS.daysUntilDelete),
             maxEntriesPerRun |->
               Nullish(result.maxEntriesPerRun,
                       DEFAULT_SETTINGS.maxEntriesPerRun),
             openaiEndpoint |-> result.openaiEndpoint,
             openaiApiKey |-> result.openaiApiKey,
             openaiModel |-> result.openaiModel,
             slackWebhookUrl |-> result.slackWebhookUrl,
             firecrawlApiKey |-> result.firecrawlApiKey]]

(***************************************************************************)
(* Reading-list store and the inputs of a pass                             *)
(***************************************************************************)
PassNow == 6 * MS_PER_DAY

Urls == 1..MaxEntries

\* The four kinds of entry a pass tells apart under the stored thresholds
\* (daysUntilRead 2, daysUntilDelete 4): unread 3 days or 1 day old, read
\* 5 days or 1 day ago.  lastUpdateTime >= creationTime in each.
EntryShapes ==
  {[hasBeenRead |-> FALSE, creationTime |-> PassNow - 3 * MS_PER_DAY,
    lastUpdateTime |-> PassNow - 3 * MS_PER_DAY],
   [hasBeenRead |-> FALSE, creationTime |-> PassNow - 1 * MS_PER_DAY,
    lastUpdateTime |-> PassNow - 1 * MS_PER_DAY],
   [hasBeenRead |-> TRUE, creationTime |-> PassNow - 5 * MS_PER_DAY,
    lastUpdateTime |-> PassNow - 5 * MS_PER_DAY],
   [hasBeenRead |-> TRUE, creationTime |-> PassNow - 5 * MS_PER_DAY,
    lastUpdateTime |-> PassNow - 1 * MS_PER_DAY]}

MkEntry(u, shape) ==
  [url |-> u, hasBeenRead |-> shape.hasBeenRead,
   creationTime |-> shape.creationTime,
   lastUpdateTime |-> shape.lastUpdateTime]

\* Reading lists of n entries with the urls 1..n in query order.
ListsOfLen(n) ==
  {[i \in 1..n |-> MkEntry(i, f[i])] : f \in [1..n -> EntryShapes]}

InitialLists == UNION {ListsOfLen(n) : n \in 0..MaxEntries}

\* chrome.readingList.updateEntry({url, hasBeenRead: true}) succeeding
StoreUpdate(l, u) ==
  [i \in DOMAIN l |->
     IF l[i].url = u
       THEN [l[i] EXCEPT !.hasBeenRead = TRUE, !.lastUpdateTime = PassNow]
       ELSE l[i]]

\* chrome.readingList.removeEntry({url}) succeeding
StoreRemove(l, u) == SelectSeq(l, LAMBDA e : e.url # u)

\* getReadingListEntries: the catch at 139-142 turns a rejected query into []
getReadingListEntries_stale(queryOk, l) == l

getReadingListEntries(queryOk, l) == IF queryOk THEN l ELSE << >>

LogEntry(op, u, ok, kind) == [op |-> op, url |-> u, ok |-> ok, kind |-> kind]

Calls(op) == {k \in DOMAIN log : log[k].op = op}

CallsFor(op, u) == {k \in DOMAIN log : log[k].op = op /\ log[k].url = u}

(***************************************************************************)
(* processReadingListEntries (background.ts 353-402): control flow         *)
(***************************************************************************)
Ctl(p, i, r) == [pc |-> p, idx |-> i, raised |-> r]

Goto(c) == pc' = c.pc /\ idx' = c.idx /\ raised' = c.raised

\* the outer catch (399-401): logs, and the function returns normally
CatchPass == Ctl("done", 0, FALSE)

\* for (const entry of entriesToDelete) (390), entered with m entries
StartDeletes(m) == IF m > 0 THEN Ctl("remove", 1, FALSE) ELSE Ctl("done", 0, FALSE)

\* the next iteration of the deletion loop after entry j
AfterDeleteEntry(j) ==
  IF j < Len(toDel) THEN Ctl("remove", j + 1, FALSE) ELSE Ctl("done", 0, FALSE)

\* the next iteration of the read loop (381) after entry i
AfterReadEntry(i) ==
  IF i < Len(toMark) THEN Ctl("markRead", i + 1, FALSE)
                     ELSE StartDeletes(Len(toDel))

\* for (const entry of entriesToMarkAsRead) (381), entered with n entries
StartReads_deletesFirst(n, m) ==
  IF m > 0 THEN Ctl("remove", 1, FALSE)
           ELSE IF n > 0 THEN Ctl("markRead", 1, FALSE)
                         ELSE Ctl("done", 0, FALSE)

StartReads(n, m) ==
  IF n > 0 THEN Ctl("markRead", 1, FALSE) ELSE StartDeletes(m)

\* the per-entry catch of the read loop (384-386): log, next entry
CatchReadEntry_rethrow(i) == CatchPass

CatchReadEntry_hang(i) == Ctl("hang", i, FALSE)

CatchReadEntry(i) == AfterReadEntry(i)

\* the per-entry catch of the deletion loop (393-395): log, next entry
CatchDeleteEntry_rethrow(j) == CatchPass

CatchDeleteEntry(j) == AfterDeleteEntry(j)

\* entries.filter(shouldMarkAsRead) / entries.filter(shouldDelete) (367-374)
FilterToMark_newestFirst(es, s) ==
  LET all == SelectSeq(es, LAMBDA e :
                             shouldMarkAsRead(e, s.daysUntilRead, PassNow))
  IN [i \in 1..Len(all) |-> all[Len(all) + 1 - i]]

FilterToMark_everyUnread(es, s) == SelectSeq(es, LAMBDA e : ~e.hasBeenRead)

FilterToMark_all(es, s) == es

FilterToMark(es, s) ==
  SelectSeq(es, LAMBDA e : shouldMarkAsRead(e, s.daysUntilRead, PassNow))

FilterToDelete_capped(es, s) ==
  LET all == SelectSeq(es, LAMBDA e :
                             shouldDelete(e, s.daysUntilDelete, PassNow))
  IN SubSeq(all, 1, IF Len(all) < s.maxEntriesPerRun
                      THEN Len(all) ELSE s.maxEntriesPerRun)

FilterToDelete(es, s) ==
  SelectSeq(es, LAMBDA e : shouldDelete(e, s.daysUntilDelete, PassNow))

(***************************************************************************)
(* Content extractor (content_extractor.ts 94-309)                         *)
(***************************************************************************)
MAX_RETRIES == 3

BASE_DELAY == 1000

DEFAULT_FIRECRAWL_BASE_URL == "https://api.firecrawl.dev"

DEFAULT_TAVILY_BASE_URL == "https://api.tavily.com"

\* A message is the sequence of the parts its template joins.
\* EMPTY_BODY_MSG stands for the source text "chuushutsu sareta honbun ga
\* kara desu" (the extracted body is empty), thrown at 261 and 302.
EMPTY_BODY_MSG == <<"extracted-body-is-empty">>

\* the message of the TypeError that new URL(...) throws
INVALID_URL_MSG == <<"Invalid URL">>

\* "<Provider> API kii ga settei sarete imasen" (the API key is not set):
\* the message of the earlier revision's credential check
\* (content_extractor.ts 50-57); the revision at 198-229 never produces it.
MissingKeyMsg(provider) ==
  <<IF provider = "firecrawl" THEN "Firecrawl" ELSE "Tavily",
    " API key-is-not-set">>

\* a thrown value: an Error with a message, or any other value
ErrorOf(msg) == [isError |-> TRUE, message |-> msg, value |-> ""]

NonError(v) == [isError |-> FALSE, message |-> << >>, value |-> v]

NoThrown == NonError("")

\* String(v) of a string primitive
StringOf(v) == <<v>>

\* new URL(path, base): base URLs the WHATWG parser accepts
ParsableUrls ==
  {DEFAULT_FIRECRAWL_BASE_URL, DEFAULT_TAVILY_BASE_URL,
   "http://localhost:3002", "https://example.com/article"}

NewURL(path, base) ==
  [valid |-> base \in ParsableUrls, base |-> base, path |-> path]

\* new URL(url).hostname
Hostname(url) ==
  IF url = "https://example.com/article" THEN "example.com" ELSE "localhost"

\* !apiKey?.trim()
IsBlank(key) == key \in {"", "   "}

ExtractConfigs ==
  [provider : {"firecrawl"}, apiKey : {"", "   ", "fc-test-key"},
   baseUrl : {DEFAULT_FIRECRAWL_BASE_URL, "http://localhost:3002",
              "::invalid-url::"}]
  \cup
  [provider : {"tavily"}, apiKey : {"", "   ", "tv-test-key"},
   baseUrl : {""}]

ExtractUrls == {"https://example.com/article", "not a url"}

\* What one fetch, and reading its body, can come to.  body is
\* data.markdown (Firecrawl) or results[0].raw_content (Tavily), "" when
\* missing; failed is failed_results[0].error (Tavily), "" when missing.
Net(kind, thrown, status, statusText, body, title, failed) ==
  [kind |-> kind, thrown |-> thrown, status |-> status,
   statusText |-> statusText, body |-> body, title |-> title,
   failed |-> failed]

NetOutcomes ==
  {Net("reject", ErrorOf(<<"API timeout">>), "", "", "", "", ""),
   Net("reject", ErrorOf(<<"Persistent API error">>), "", "", "", "", ""),
   Net("reject", NonError("string error"), "", "", "", "", ""),
   Net("status", NoThrown, "401", "Unauthorized", "", "", ""),
   Net("status", NoThrown, "500", "Internal Server Error", "", "", ""),
   Net("badjson", ErrorOf(<<"Unexpected token">>), "", "", "", "", ""),
   Net("ok", NoThrown, "200", "OK", "", "", ""),
   Net("ok", NoThrown, "200", "OK", "", "", "fetch failed for url"),
   Net("ok", NoThrown, "200", "OK", "   ", "T", ""),
   Net("ok", NoThrown, "200", "OK", "# body", "T", ""),
   Net("ok", NoThrown, "200", "OK", "# body", "", "")}

\* the outcome of one invocation of the operation
OpReturn(content, title, reqs) ==
  [ok |-> TRUE, content |-> content, title |-> title, err |-> NoThrown,
   fetched |-> reqs]

OpThrow(thrown, reqs) ==
  [ok |-> FALSE, content |-> "", title |-> "", err |-> thrown,
   fetched |-> reqs]

Request(endpoint, key) == [endpoint |-> endpoint, bearer |-> key]

\* title: metadata?.title || new URL(url).hostname  (266, 307)
TitleOrHostname(url, body, title, reqs) ==
  IF title # ""
    THEN OpReturn(body, title, reqs)
    ELSE IF NewURL("", url).valid
           THEN OpReturn(body, Hostname(url), reqs)
           ELSE OpThrow(ErrorOf(INVALID_URL_MSG), reqs)

\* the part of both providers after new URL(...): fetch, response.ok,
\* response.json()
AfterFetch_emptySuccess(provider, url, net, reqs) ==
  IF net.kind = "reject" THEN OpThrow(net.thrown, reqs)
  ELSE IF net.kind = "status"
    THEN OpThrow(ErrorOf(<<provider, " API error: ", net.status, " ",
                           net.statusText>>), reqs)
  ELSE IF net.kind = "badjson" THEN OpThrow(net.thrown, reqs)
  ELSE TitleOrHostname(url, net.body, net.title, reqs)

AfterFetch(provider, url, net, reqs) ==
  IF net.kind = "reject" THEN OpThrow(net.thrown, reqs)
  ELSE IF net.kind = "status"
    THEN OpThrow(ErrorOf(<<provider, " API error: ", net.status, " ",
                           net.statusText>>), reqs)
  ELSE IF net.kind = "badjson" THEN OpThrow(net.thrown, reqs)
  ELSE IF net.body = ""
    THEN OpThrow(ErrorOf(IF provider = "Tavily" /\ net.failed # ""
                           THEN <<net.failed>> ELSE EMPTY_BODY_MSG), reqs)
  ELSE TitleOrHostname(url, net.body, net.title, reqs)

\* the earlier revision's behaviour (50-57): no request without a key
extractWithFirecrawl_keyCheck(url, config, net) ==
  IF IsBlank(config.apiKey)
    THEN OpThrow(ErrorOf(MissingKeyMsg("firecrawl")), << >>)
    ELSE AfterFetch("Firecrawl", url, net,
           <<Request(NewURL("/v2/scrape", config.baseUrl), config.apiKey)>>)

\* extractWithFirecrawl (231-268)
extractWithFirecrawl(url, config, net) ==
  LET endpoint == NewURL("/v2/scrape", config.baseUrl) IN
    IF ~endpoint.valid
      THEN OpThrow(ErrorOf(INVALID_URL_MSG), << >>)
      ELSE AfterFetch("Firecrawl", url, net,
                      <<Request(endpoint, config.apiKey)>>)

\* extractWithTavily (270-309)
extractWithTavily(url, config, net) ==
  LET endpoint == NewURL("/extract", DEFAULT_TAVILY_BASE_URL) IN
    IF ~endpoint.valid
      THEN OpThrow(ErrorOf(INVALID_URL_MSG), << >>)
      ELSE AfterFetch("Tavily", url, net, <<Request(endpoint, config.apiKey)>>)

\* the operation extractContent hands to the retry executor (205-211)
Operation(url, config, net) ==
  IF config.provider = "firecrawl"
    THEN extractWithFirecrawl(url, config, net)
    ELSE extractWithTavily(url, config, net)

(***************************************************************************)
(* retryWithExponentialBackoff (164-192)                                   *)
(***************************************************************************)
\* const delay = baseDelay * 2 ** (attempt - 1)  (185)
BackoffDelay_constant(baseDelay, k) == baseDelay

BackoffDelay(baseDelay, k) == baseDelay * 2 ^ (k - 1)

\* lastError = error as Error  (176)
RecordError_keepFirst(previous, error) ==
  IF previous = NoThrown THEN error ELSE previous

RecordError(previous, error) == error

IsLastAttempt_two(k, maxRetries) == k >= 2

IsLastAttempt(k, maxRetries) == k = maxRetries

Settled(kind, content, title, thrown) ==
  [kind |-> kind, content |-> content, title |-> title, thrown |-> thrown]

Pending == Settled("pending", "", "", NoThrown)

(***************************************************************************)
(* extractContent (198-229)                                                *)
(***************************************************************************)
Result(kind, success, content, title, error) ==
  [kind |-> kind, success |-> success, content |-> content,
   title |-> title, error |-> error]

NoResult == Result("pending", FALSE, "", "", << >>)

ErrorMessage(thrown) ==
  IF thrown.isError THEN thrown.message ELSE StringOf(thrown.value)

\* the catch of extractContent (219-228)
ExtractCatch_rethrow(thrown) ==
  Result("throw", FALSE, "", "", ErrorMessage(thrown))

ExtractCatch(thrown) == Result("return", FALSE, "", "", ErrorMessage(thrown))

\* how extractContent settles once the retry executor has
ExtractSettle(r) ==
  IF r.kind = "return"
    THEN Result("return", TRUE, r.content, r.title, << >>)
    ELSE ExtractCatch(r.thrown)

ExtractInit ==
  /\ xurl \in ExtractUrls
  /\ xcfg \in ExtractConfigs
  /\ xpc = "call" /\ attempt = 0 /\ lastError = NoThrown
  /\ opCalls = 0 /\ ops = << >> /\ nets = << >>
  /\ fetches = << >> /\ delays = << >>
  /\ retryOut = Pending /\ xout = NoResult

\* extractContent is called: the loop starts with attempt = 1 (171)
ExtractCall ==
  /\ xpc = "call"
  /\ attempt' = 1
  /\ xpc' = "attempt"
  /\ UNCHANGED <<xurl, xcfg, lastError, opCalls, ops, nets, fetches, delays,
                 retryOut, xout>>
  /\ UNCHANGED <<evalVars, passVars, summarizeVars, triggerVars,
                 postVars, formatVars, messageVars, storageVars,
                 repeatVars, alarmVars>>

\* one iteration of the loop: return await operation() (174) resolves, and
\* extractContent returns; or it throws into the catch (175-188), which
\* breaks out to throw lastError (191) or starts the backoff timer
ExtractAttempt ==
  /\ xpc = "attempt"
  /\ \E net \in NetOutcomes :
       LET o == Operation(xurl, xcfg, net)
           e == RecordError(lastError, o.err)
       IN /\ opCalls' = opCalls + 1
          /\ ops' = Append(ops, o)
          /\ nets' = Append(nets, net)
          /\ fetches' = fetches \o o.fetched
          /\ IF o.ok
               THEN /\ retryOut' = Settled("return", o.content, o.title,
                                           NoThrown)
                    /\ xout' = ExtractSettle(retryOut')
                    /\ xpc' = "done"
                    /\ UNCHANGED lastError
               ELSE /\ lastError' = e
                    /\ IF IsLastAttempt(attempt, MAX_RETRIES)
                         THEN /\ retryOut' = Settled("throw", "", "", e)
                              /\ xout' = ExtractSettle(retryOut')
                              /\ xpc' = "done"
                         ELSE /\ xpc' = "delay"
                              /\ UNCHANGED <<retryOut, xout>>
  /\ UNCHANGED <<xurl, xcfg, attempt, delays>>
  /\ UNCHANGED <<evalVars, passVars, summarizeVars, triggerVars,
                 postVars, formatVars, messageVars, storageVars,
                 repeatVars, alarmVars>>

\* the backoff timer fires (187) and the loop goes on: attempt++
ExtractDelay ==
  /\ xpc = "delay"
  /\ delays' = Append(delays, BackoffDelay(BASE_DELAY, attempt))
  /\ attempt' = attempt + 1
  /\ xpc' = "attempt"
  /\ UNCHANGED <<xurl, xcfg, lastError, opCalls, ops, nets, fetches,
                 retryOut, xout>>
  /\ UNCHANGED <<evalVars, passVars, summarizeVars, triggerVars,
                 postVars, formatVars, messageVars, storageVars,
                 repeatVars, alarmVars>>

ExtractNext == ExtractCall \/ ExtractAttempt \/ ExtractDelay

(***************************************************************************)
(* summarizeContent (summarizer.ts 41-123)                                 *)
(***************************************************************************)
SUMMARY_MAX_RETRIES == 3

SUMMARY_BASE_DELAY == 1000

\* "youyaku kekka ga kara desu" (the summary is empty), thrown at 81
EMPTY_SUMMARY_MSG == <<"summary-result-is-empty">>

\* calculateBackoffDelay (25-28)
calculateBackoffDelay_constant(k) == SUMMARY_BASE_DELAY

calculateBackoffDelay(k) == SUMMARY_BASE_DELAY * 2 ^ (k - 1)

\* String.prototype.trim on the completion texts of the model
Trim_none(text) == text

Trim(text) ==
  CASE text = "   " -> ""
    [] text = " \n " -> ""
    [] text = "  s1\ns2\ns3 \n" -> "s1\ns2\ns3"
    [] OTHER -> text

\* What one client.chat.completions.create call can come to: a rejection,
\* or a response; hasContent is FALSE when choices[0]?.message?.content is
\* undefined (no choice, no message or null content).
Completion(kind, thrown, hasContent, content) ==
  [kind |-> kind, thrown |-> thrown, hasContent |-> hasContent,
   content |-> content]

Completions ==
  {Completion("reject", ErrorOf(<<"API Error">>), FALSE, ""),
   Completion("reject", ErrorOf(<<"Rate limit exceeded">>), FALSE, ""),
   Completion("reject", NonError("string error"), FALSE, ""),
   Completion("ok", NoThrown, FALSE, ""),
   Completion("ok", NoThrown, TRUE, ""),
   Completion("ok", NoThrown, TRUE, "   "),
   Completion("ok", NoThrown, TRUE, " \n "),
   Completion("ok", NoThrown, TRUE, "s1\ns2\ns3"),
   Completion("ok", NoThrown, TRUE, "  s1\ns2\ns3 \n")}

\* the body of the try (53-91): [ok, summary, err]
TrySummarize(c) ==
  IF c.kind = "reject"
    THEN [ok |-> FALSE, summary |-> "", err |-> c.thrown]
    ELSE LET summary == IF c.hasContent THEN Trim(c.content) ELSE ""
         IN IF summary = ""
              THEN [ok |-> FALSE, summary |-> "",
                    err |-> ErrorOf(EMPTY_SUMMARY_MSG)]
              ELSE [ok |-> TRUE, summary |-> summary, err |-> NoThrown]

\* a SummarizeResult, or how the call settled
SumResult(kind, success, summary, error, retryCount) ==
  [kind |-> kind, success |-> success, summary |-> summary,
   error |-> error, retryCount |-> retryCount]

NoSumResult == SumResult("pending", FALSE, "", << >>, 0)

\* retryCount: attempt  (90, 112)
RetryCountOf_retries(k) == k - 1

RetryCountOf(k) == k

\* const errorMessage = error instanceof Error ? error.message :
\* String(error)  (93-94)
SumErrorMessage_unknown(thrown) == <<"unknown-error">>

SumErrorMessage(thrown) ==
  IF thrown.isError THEN thrown.message ELSE StringOf(thrown.value)

\* the return of the last attempt's catch (109-113)
SumFail_rethrow(thrown, k) ==
  SumResult("throw", FALSE, "", SumErrorMessage(thrown), RetryCountOf(k))

SumFail(thrown, k) ==
  SumResult("return", FALSE, "", SumErrorMessage(thrown), RetryCountOf(k))

SumInit ==
  /\ spc = "call" /\ sattempt = 0 /\ scalls = 0
  /\ sresps = << >> /\ sdelays = << >> /\ sout = NoSumResult

\* summarizeContent is called: the loop starts with attempt = 1 (49)
SumCall ==
  /\ spc = "call"
  /\ sattempt' = 1
  /\ spc' = "attempt"
  /\ UNCHANGED <<scalls, sresps, sdelays, sout>>
  /\ UNCHANGED <<evalVars, passVars, extractVars, triggerVars,
                 postVars, formatVars, messageVars, storageVars,
                 repeatVars, alarmVars>>

\* one iteration (52-114): the completion call settles; a summary is
\* returned (87-91), or the catch starts the backoff timer (100-104) or
\* returns the failure (109-113)
SumAttempt ==
  /\ spc = "attempt"
  /\ \E c \in Completions :
       LET t == TrySummarize(c) IN
         /\ scalls' = scalls + 1
         /\ sresps' = Append(sresps, c)
         /\ IF t.ok
              THEN /\ sout' = SumResult("return", TRUE, t.summary, << >>,
                                        RetryCountOf(sattempt))
                   /\ spc' = "done"
              ELSE IF sattempt < SUMMARY_MAX_RETRIES
                     THEN spc' = "delay" /\ UNCHANGED sout
                     ELSE sout' = SumFail(t.err, sattempt) /\ spc' = "done"
  /\ UNCHANGED <<sattempt, sdelays>>
  /\ UNCHANGED <<evalVars, passVars, extractVars, triggerVars,
                 postVars, formatVars, messageVars, storageVars,
                 repeatVars, alarmVars>>

\* await delay(delayMs); continue  (101-104): attempt++
SumDelay ==
  /\ spc = "delay"
  /\ sdelays' = Append(sdelays, calculateBackoffDelay(sattempt))
  /\ sattempt' = sattempt + 1
  /\ spc' = "attempt"
  /\ UNCHANGED <<scalls, sresps, sout>>
  /\ UNCHANGED <<evalVars, passVars, extractVars, triggerVars,
                 postVars, formatVars, messageVars, storageVars,
                 repeatVars, alarmVars>>

SumNext == SumCall \/ SumAttempt \/ SumDelay

(***************************************************************************)
(* Slack messages (summarizer.ts 139-181) and what a pass hands to them    *)
(***************************************************************************)
\* entry.title and entry.url as text, for the entry with url u
EntryTitle(u) == <<"title-1", "title-2", "title-3", "title-4", "title-5">>[u]

EntryUrl(u) ==
  <<"https://example.com/1", "https://example.com/2",
    "https://example.com/3", "https://example.com/4",
    "https://example.com/5">>[u]

\* summary.split("\n") on the summaries of the model
SplitLines(summary) ==
  CASE summary = "s1\ns2\ns3" -> <<"s1", "s2", "s3">>
    [] summary = "s1\n\n  \ns2" -> <<"s1", "", "  ", "s2">>
    [] summary = "\n\ns1\n\t\ns2\n\ns3\ns4\ns5" ->
         <<"", "", "s1", "\t", "s2", "", "s3", "s4", "s5">>
    [] summary = "s1\r\ns2\r\n\r\ns3" -> <<"s1\r", "s2\r", "\r", "s3">>
    [] summary = "  s1  \ns2" -> <<"  s1  ", "s2">>
    [] summary = "s1\ns2\ns3\ns4" -> <<"s1", "s2", "s3", "s4">>
    [] OTHER -> <<summary>>

\* line.trim() !== ""
NonBlankLine_all(line) == TRUE

NonBlankLine(line) == line \notin {"", "  ", "   ", "\t", "\r"}

\* lines[k] || ""
LineOrEmpty(lines, k) == IF k <= Len(lines) THEN lines[k] ELSE ""

\* formatSlackMessage (139-161); "<model> ni yoru youyaku" is the header line
formatSlackMessage(title, url, modelName, summary) ==
  LET lines == SelectSeq(SplitLines(summary), NonBlankLine) IN
    <<title, "\n", url, "\n\n", modelName, " summary-header", "\n\n",
      LineOrEmpty(lines, 1), "\n\n", LineOrEmpty(lines, 2), "\n\n",
      LineOrEmpty(lines, 3)>>

\* formatSlackErrorMessage (166-181); "youyaku seisei ni shippai shimashita:"
\* is the failure line
formatSlackErrorMessage(title, url, modelName, error) ==
  <<title, "\n", url, "\n\n", modelName, " summary-header", "\n\n",
    "summary-generation-failed: ">> \o error \o <<"\n\n\n">>

\* `honbun chuushutsu shippai: ${error}`  (background.ts 299)
ExtractionFailedText(error) == <<"extraction-failed: ">> \o error

\* summarizeResult.error || "fumei na eraa" (unknown error)  (277)
OrUnknownError_always(error) == <<"unknown-error">>

OrUnknownError(error) ==
  IF error \in {<< >>, <<"">>} THEN <<"unknown-error">> ELSE error

(***************************************************************************)
(* The retry loops as functions of what each attempt comes to              *)
(***************************************************************************)
\* retryWithExponentialBackoff (content_extractor.ts 164-192) from attempt
\* k on, run[i] being the outcome of the i-th invocation of the operation:
\* how it settles and after how many invocations
RECURSIVE RetryFrom(_, _, _)
RetryFrom(run, k, last) ==
  IF run[k].ok
    THEN [out |-> Settled("return", run[k].content, run[k].title, NoThrown),
          attempts |-> k]
    ELSE LET e == RecordError(last, run[k].err) IN
           IF IsLastAttempt(k, MAX_RETRIES)
             THEN [out |-> Settled("throw", "", "", e), attempts |-> k]
             ELSE RetryFrom(run, k + 1, e)

\* summarizeContent (summarizer.ts 49-114) from attempt k on, cs[i] being
\* the outcome of the i-th completion call
RECURSIVE SumFrom(_, _)
SumFrom(cs, k) ==
  LET t == TrySummarize(cs[k]) IN
    IF t.ok
      THEN SumResult("return", TRUE, t.summary, << >>, RetryCountOf(k))
      ELSE IF k < SUMMARY_MAX_RETRIES
             THEN SumFrom(cs, k + 1)
             ELSE SumFail(t.err, k)

\* the extraction outcomes a pass is run against: success at once, success
\* at the third attempt, three failures
PassExtractRuns ==
  LET good == OpReturn("# body", "T", << >>)
      timeout == OpThrow(ErrorOf(<<"API timeout">>), << >>)
      empty == OpThrow(ErrorOf(EMPTY_BODY_MSG), << >>)
  IN {<<good>>, <<timeout, empty, good>>, <<empty, empty, timeout>>}

\* the completion outcomes a pass is run against: a summary at once, three
\* failures
PassCompletionRuns ==
  {<<Completion("ok", NoThrown, TRUE, "s1\ns2\ns3")>>,
   <<Completion("reject", ErrorOf(<<"Rate limit exceeded">>), FALSE, ""),
     Completion("ok", NoThrown, TRUE, "   "),
     Completion("reject", ErrorOf(<<"API Error">>), FALSE, "")>>}

\* processSummarization goes on only with all four settings (245-250)
CanSummarize_ignoreWebhook(s) ==
  s.openaiEndpoint # "" /\ s.openaiApiKey # "" /\ s.openaiModel # ""

CanSummarize(s) ==
  /\ s.openaiEndpoint # "" /\ s.openaiApiKey # "" /\ s.openaiModel # ""
  /\ s.slackWebhookUrl # ""

\* notifyExtractionError returns at once without webhook or model (291-293)
CanNotifyExtractionError_always(s) == TRUE

CanNotifyExtractionError(s) == s.slackWebhookUrl # "" /\ s.openaiModel # ""

\* the first n attempts of a run, as entries of the log
AttemptEntries(op, u, run, n) ==
  [i \in 1..n |-> LogEntry(op, u, run[i].ok, << >>)]

(***************************************************************************)
(* Spec: one pass                                                          *)
(***************************************************************************)
PassInit ==
  /\ list \in InitialLists
  /\ settings = DEFAULT_SETTINGS
  /\ entries = << >> /\ toMark = << >> /\ toDel = << >>
  /\ pc = "idle" /\ idx = 0 /\ pending = << >>
  /\ log = << >> /\ raised = FALSE

\* the alarm fires or the pass is called: processReadingListEntries()
StartPass ==
  /\ pc = "idle"
  /\ pc' = "getSettings"
  /\ UNCHANGED <<list, settings, entries, toMark, toDel, idx, pending, log,
                 raised>>
  /\ UNCHANGED <<evalVars, extractVars, summarizeVars, triggerVars,
                 postVars, formatVars, messageVars, storageVars,
                 repeatVars, alarmVars>>

\* const settings = await getSettings()  (358)
LoadSettings ==
  /\ pc = "getSettings"
  /\ \E result \in StorageResults :
       LET r == getSettings(result) IN
         /\ stored' = result
         /\ IF r.threw
              THEN Goto(CatchPass) /\ UNCHANGED settings
              ELSE /\ settings' = r.value
                   /\ pc' = "query" /\ UNCHANGED <<idx, raised>>
  /\ UNCHANGED <<list, entries, toMark, toDel, pending, log>>
  /\ UNCHANGED <<evalVars, extractVars, summarizeVars, triggerVars,
                 postVars, formatVars, messageVars, repeatVars,
                 alarmVars>>

\* const entries = await getReadingListEntries() and the two filters
\* (364-374), then the first iteration of the first non-empty loop
QueryAndPartition ==
  /\ pc = "query"
  /\ \E queryOk \in BOOLEAN :
       LET es == getReadingListEntries(queryOk, list)
           tm == FilterToMark(es, settings)
           td == FilterToDelete(es, settings)
       IN /\ entries' = es
          /\ toMark' = tm
          /\ toDel' = td
          /\ log' = Append(log, LogEntry("query", 0, queryOk, << >>))
          /\ Goto(StartReads(Len(tm), Len(td)))
  /\ UNCHANGED <<list, settings, pending>>
  /\ UNCHANGED <<evalVars, extractVars, summarizeVars, triggerVars,
                 postVars, formatVars, messageVars, storageVars,
                 repeatVars, alarmVars>>

\* await chrome.readingList.updateEntry(...) (315-318): a rejection is
\* thrown at the await into the catch (322-325), which rethrows it
UpdateEntryThrows_unawaited(ok) == FALSE

UpdateEntryThrows(ok) == ~ok

\* markAsReadAndNotify (307-328): await chrome.readingList.updateEntry, then
\* processContentExtraction up to its first await (212-222)
MarkRead ==
  /\ pc = "markRead"
  /\ LET u == toMark[idx].url IN
     \E ok \in BOOLEAN :
       /\ log' = Append(log, LogEntry("updateEntry", u, ok, << >>))
       /\ list' = IF ok THEN StoreUpdate(list, u) ELSE list
       /\ IF UpdateEntryThrows(ok)
            THEN Goto(CatchReadEntry(idx))
            ELSE IF settings.firecrawlApiKey = ""
                   THEN Goto(AfterReadEntry(idx))
                   ELSE pc' = "extract" /\ UNCHANGED <<idx, raised>>
  /\ UNCHANGED <<settings, entries, toMark, toDel, pending>>
  /\ UNCHANGED <<evalVars, extractVars, summarizeVars, triggerVars,
                 postVars, formatVars, messageVars, storageVars,
                 repeatVars, alarmVars>>

\* await extractContent(...) (219-222), which never rejects: every attempt
\* of its operation, then notifyExtractionError (286-302) or
\* processSummarization up to its await (237-263)
ExtractDone ==
  /\ pc = "extract"
  /\ LET u == toMark[idx].url IN
     \E run \in PassExtractRuns :
       LET r == RetryFrom(run, 1, NoThrown)
           res == ExtractSettle(r.out)
           usable == res.success /\ res.content # ""
       IN
       /\ log' = log \o AttemptEntries("extractAttempt", u, run, r.attempts)
                     \o <<LogEntry("extractContent", u, usable, res.error)>>
       /\ IF ~usable
            THEN IF ~CanNotifyExtractionError(settings)
                   THEN Goto(AfterReadEntry(idx)) /\ UNCHANGED pending
                   ELSE /\ pc' = "post"
                        /\ pending' = formatSlackErrorMessage(
                                        EntryTitle(u), EntryUrl(u),
                                        settings.openaiModel,
                                        ExtractionFailedText(res.error))
                        /\ UNCHANGED <<idx, raised>>
            ELSE IF ~CanSummarize(settings)
                   THEN Goto(AfterReadEntry(idx)) /\ UNCHANGED pending
                   ELSE /\ pc' = "summarize"
                        /\ UNCHANGED <<idx, raised, pending>>
  /\ UNCHANGED <<list, settings, entries, toMark, toDel>>
  /\ UNCHANGED <<evalVars, extractVars, summarizeVars, triggerVars,
                 postVars, formatVars, messageVars, storageVars,
                 repeatVars, alarmVars>>

\* await summarizeContent(...) (258-263), which never rejects: every
\* completion call it makes, and the choice of the message (265-278)
SummarizeDone ==
  /\ pc = "summarize"
  /\ LET u == toMark[idx].url IN
     \E cs \in PassCompletionRuns :
       LET sr == SumFrom(cs, 1) IN
       /\ log' = log \o AttemptEntries("completions.create", u,
                                       [i \in DOMAIN cs |-> TrySummarize(cs[i])],
                                       sr.retryCount)
                     \o <<LogEntry("summarizeContent", u, sr.success,
                                   sr.error)>>
       /\ pending' =
            IF sr.success /\ sr.summary # ""
              THEN formatSlackMessage(EntryTitle(u), EntryUrl(u),
                                      settings.openaiModel, sr.summary)
              ELSE formatSlackErrorMessage(EntryTitle(u), EntryUrl(u),
                                           settings.openaiModel,
                                           OrUnknownError(sr.error))
       /\ pc' = "post"
  /\ UNCHANGED <<list, settings, entries, toMark, toDel, idx, raised>>
  /\ UNCHANGED <<evalVars, extractVars, summarizeVars, triggerVars,
                 postVars, formatVars, messageVars, storageVars,
                 repeatVars, alarmVars>>

\* await postToSlack(...) (280, 301): a failed post throws out of
\* markAsReadAndNotify into the per-entry catch
PostDone ==
  /\ pc = "post"
  /\ LET u == toMark[idx].url IN
     \E ok \in BOOLEAN :
       /\ log' = Append(log, LogEntry("postToSlack", u, ok, pending))
       /\ Goto(IF ok THEN AfterReadEntry(idx) ELSE CatchReadEntry(idx))
  /\ pending' = << >>
  /\ UNCHANGED <<list, settings, entries, toMark, toDel>>
  /\ UNCHANGED <<evalVars, extractVars, summarizeVars, triggerVars,
                 postVars, formatVars, messageVars, storageVars,
                 repeatVars, alarmVars>>

\* deleteEntry (333-348): await chrome.readingList.removeEntry
RemoveDone ==
  /\ pc = "remove"
  /\ LET u == toDel[idx].url IN
     \E ok \in BOOLEAN :
       /\ log' = Append(log, LogEntry("removeEntry", u, ok, << >>))
       /\ list' = IF ok THEN StoreRemove(list, u) ELSE list
       /\ Goto(IF ok THEN AfterDeleteEntry(idx) ELSE CatchDeleteEntry(idx))
  /\ UNCHANGED <<settings, entries, toMark, toDel, pending>>
  /\ UNCHANGED <<evalVars, extractVars, summarizeVars, triggerVars,
                 postVars, formatVars, messageVars, storageVars,
                 repeatVars, alarmVars>>

PassNext ==
  \/ StartPass
  \/ LoadSettings
  \/ QueryAndPartition
  \/ MarkRead
  \/ ExtractDone
  \/ SummarizeDone
  \/ PostDone
  \/ RemoveDone

(***************************************************************************)
(* Alarm firings and the passes they start (alarm.ts 70-76)                *)
(***************************************************************************)
Passes == 1..MaxPasses

\* the calls the claim counts as external requests
ExternalKinds ==
  {"updateEntry", "extractContent", "summarizeContent", "postToSlack",
   "removeEntry"}

\* await: the function goes on only once the call it issued has settled
Awaited_fireAndForget(reqs) == TRUE

Awaited(reqs) == reqs = << >>

\* await markAsReadAndNotify(entry, settings) (383) and await
\* deleteEntry(entry) (392): the loop takes its next entry only once the
\* function it called for this one has settled
EntryAwaited_forEach(reqs) == TRUE

EntryAwaited(reqs) == reqs = << >>

Left(r, d) == [reads |-> r, dels |-> d]

\* where a pass goes when an entry is over: the next entry of the read
\* loop, else the next entry of the deletion loop, else the end
NextEntry(left) ==
  IF left.reads > 0
    THEN [phase |-> "updateEntry", left |-> Left(left.reads - 1, left.dels)]
    ELSE IF left.dels > 0
      THEN [phase |-> "removeEntry", left |-> Left(0, left.dels - 1)]
      ELSE [phase |-> "done", left |-> left]

\* the entry a pass is at when it takes the next one: its first, or a later
\* one; 0 again when there is none
Nth(n, phase) == IF phase = "done" THEN 0 ELSE IF n = 0 THEN 1 ELSE 2

\* pass p moves to a phase and issues the call of that phase
Enter(p, to) ==
  /\ tpc' = [tpc EXCEPT ![p] = to.phase]
  /\ tleft' = [tleft EXCEPT ![p] = to.left]
  /\ treq' = [treq EXCEPT ![p] =
                IF to.phase = "done" THEN @ ELSE Append(@, to.phase)]
  /\ tlast' = [tlast EXCEPT ![p] = "none"]

TrigInit ==
  /\ tpc = [p \in Passes |-> "idle"]
  /\ tleft = [p \in Passes |-> Left(0, 0)]
  /\ treq = [p \in Passes |-> << >>]
  /\ tlast = [p \in Passes |-> "none"]
  /\ tnth = [p \in Passes |-> 0]

\* chrome.alarms.onAlarm (71-76): processReadingListEntries() is called and
\* not awaited, whether or not an earlier pass is still running; the new
\* pass runs up to await getSettings()
AlarmFires ==
  /\ \E p \in Passes :
       /\ tpc[p] = "idle"
       /\ Enter(p, [phase |-> "getSettings", left |-> Left(0, 0)])
  /\ UNCHANGED tnth
  /\ UNCHANGED <<evalVars, passVars, extractVars, summarizeVars,
                 postVars, formatVars, messageVars, storageVars,
                 repeatVars, alarmVars>>

\* a call in flight settles, successfully or not
TrigSettle ==
  /\ \E p \in Passes, ok \in BOOLEAN :
       /\ treq[p] # << >>
       /\ treq' = [treq EXCEPT ![p] = Tail(@)]
       /\ tlast' = [tlast EXCEPT ![p] = IF ok THEN "ok" ELSE "fail"]
  /\ UNCHANGED <<tpc, tleft, tnth>>
  /\ UNCHANGED <<evalVars, passVars, extractVars, summarizeVars,
                 postVars, formatVars, messageVars, storageVars,
                 repeatVars, alarmVars>>

\* background.ts 358-364: settings loaded (or defaulted), the query issued
TrigLoad ==
  /\ \E p \in Passes :
       /\ tpc[p] = "getSettings" /\ Awaited(treq[p])
       /\ Enter(p, [phase |-> "query", left |-> Left(0, 0)])
  /\ UNCHANGED tnth
  /\ UNCHANGED <<evalVars, passVars, extractVars, summarizeVars,
                 postVars, formatVars, messageVars, storageVars,
                 repeatVars, alarmVars>>

\* 364-381: the snapshot is partitioned into the two sets (both empty when
\* the query failed) and the first entry is started
TrigPartition ==
  /\ \E p \in Passes, r \in 0..MaxSnapshot, d \in 0..MaxSnapshot :
       /\ tpc[p] = "query" /\ Awaited(treq[p])
       /\ tlast[p] = "fail" => (r = 0 /\ d = 0)
       /\ Enter(p, NextEntry(Left(r, d)))
       /\ tnth' = [tnth EXCEPT ![p] = Nth(@, NextEntry(Left(r, d)).phase)]
  /\ UNCHANGED <<evalVars, passVars, extractVars, summarizeVars,
                 postVars, formatVars, messageVars, storageVars,
                 repeatVars, alarmVars>>

\* 208-328 and 381-387: the read loop goes from one awaited call of an
\* entry to the next one, or to the next entry: after the post, after a
\* failed updateEntry, or (skip) when the settings the next call needs are
\* missing (212, 245, 291)
TrigReadStep ==
  /\ \E p \in Passes, skip \in BOOLEAN :
       /\ tpc[p] \in {"updateEntry", "extractContent", "summarizeContent",
                      "postToSlack"}
       /\ LET nextCall ==
                CASE tpc[p] = "updateEntry" -> "extractContent"
                  [] tpc[p] = "extractContent" ->
                       IF tlast[p] = "fail" THEN "postToSlack"
                                            ELSE "summarizeContent"
                  [] OTHER -> "postToSlack"
              over == \/ tpc[p] = "postToSlack"
                      \/ tpc[p] = "updateEntry" /\ (tlast[p] = "fail" \/ skip)
                      \/ tpc[p] = "extractContent" /\ skip
          IN IF over
               THEN /\ EntryAwaited(treq[p])
                    /\ Enter(p, NextEntry(tleft[p]))
                    /\ tnth' = [tnth EXCEPT
                                  ![p] = Nth(@, NextEntry(tleft[p]).phase)]
               ELSE /\ Awaited(treq[p])
                    /\ Enter(p, [phase |-> nextCall, left |-> tleft[p]])
                    /\ UNCHANGED tnth
  /\ UNCHANGED <<evalVars, passVars, extractVars, summarizeVars,
                 postVars, formatVars, messageVars, storageVars,
                 repeatVars, alarmVars>>

\* 390-396: the deletion loop goes to its next entry, or the pass ends
TrigDeleteStep ==
  /\ \E p \in Passes :
       /\ tpc[p] = "removeEntry" /\ EntryAwaited(treq[p])
       /\ Enter(p, NextEntry(tleft[p]))
       /\ tnth' = [tnth EXCEPT ![p] = Nth(@, NextEntry(tleft[p]).phase)]
  /\ UNCHANGED <<evalVars, passVars, extractVars, summarizeVars,
                 postVars, formatVars, messageVars, storageVars,
                 repeatVars, alarmVars>>

\* 398-402: the pass has returned
TrigFinish ==
  /\ \E p \in Passes :
       /\ tpc[p] = "done" /\ Awaited(treq[p])
       /\ tpc' = [tpc EXCEPT ![p] = "idle"]
       /\ tlast' = [tlast EXCEPT ![p] = "none"]
  /\ UNCHANGED <<tleft, treq, tnth>>
  /\ UNCHANGED <<evalVars, passVars, extractVars, summarizeVars,
                 postVars, formatVars, messageVars, storageVars,
                 repeatVars, alarmVars>>

TrigNext ==
  \/ AlarmFires
  \/ TrigSettle
  \/ TrigLoad
  \/ TrigPartition
  \/ TrigReadStep
  \/ TrigDeleteStep
  \/ TrigFinish

(***************************************************************************)
(* postToSlack (post.ts 8-40)                                              *)
(***************************************************************************)
WebhookUrls ==
  {"https://hooks.slack.com/services/T/B/X", "https://hooks.example.com/x",
   "http://localhost:8080/hook"}

\* the messages a post is run against: plain text, the empty text, text
\* with characters JSON escapes, a summary message and a failure message
PostMessages ==
  {<<"Test message">>, << >>,
   <<"say ", "\"", "hi", "\"", " ", "\\">>,
   formatSlackMessage("title-1", "https://example.com/1", "gpt-4o-mini",
                      "s1\ns2\ns3"),
   formatSlackErrorMessage("title-1", "https://example.com/1",
                           "gpt-4o-mini", <<"API Error">>)}

\* JSON.stringify of the pieces of a string: quote, backslash and line
\* feed are escaped
JsonEscape(piece) ==
  CASE piece = "\"" -> "\\\""
    [] piece = "\\" -> "\\\\"
    [] piece = "\n" -> "\\n"
    [] piece = "\n\n" -> "\\n\\n"
    [] piece = "\n\n\n" -> "\\n\\n\\n"
    [] OTHER -> piece

\* JSON.parse of the pieces of a string literal
JsonUnescape(piece) ==
  CASE piece = "\\\"" -> "\""
    [] piece = "\\\\" -> "\\"
    [] piece = "\\n" -> "\n"
    [] piece = "\\n\\n" -> "\n\n"
    [] piece = "\\n\\n\\n" -> "\n\n\n"
    [] OTHER -> piece

\* JSON.stringify({ text: message })  (11-23)
JsonStringifyPayload(message) ==
  <<"{\"text\":\"">> \o [i \in 1..Len(message) |-> JsonEscape(message[i])]
    \o <<"\"}">>

\* JSON.parse(body).text, for a body with the one key text
JsonParseText(body) ==
  [i \in 1..(Len(body) - 2) |-> JsonUnescape(body[i + 1])]

\* fetch(webhookUrl, { method, headers, body })  (17-23)
PostRequest(url, message) ==
  [url |-> url, method |-> "POST", contentType |-> "application/json",
   body |-> JsonStringifyPayload(message)]

\* What the one fetch can come to: a rejection or a response.
PostNet(kind, thrown, status, statusText) ==
  [kind |-> kind, thrown |-> thrown, status |-> status,
   statusText |-> statusText]

PostNetOutcomes ==
  {PostNet("reject", ErrorOf(<<"Network error">>), 0, ""),
   PostNet("reject", ErrorOf(<<"Failed to fetch">>), 0, ""),
   PostNet("reject", NonError("string error"), 0, ""),
   PostNet("response", NoThrown, 200, "OK"),
   PostNet("response", NoThrown, 204, "No Content"),
   PostNet("response", NoThrown, 400, "Bad Request"),
   PostNet("response", NoThrown, 404, "Not Found"),
   PostNet("response", NoThrown, 429, "Too Many Requests"),
   PostNet("response", NoThrown, 500, "Internal Server Error")}

\* Response.ok
ResponseOk(status) == status \in 200..299

\* how postToSlack settled
PostSettled(kind, thrown) == [kind |-> kind, thrown |-> thrown]

PostPending == PostSettled("pending", NoThrown)

\* the catch (36-39): console.error, then throw error
PostCatch_swallow(error) == PostSettled("return", NoThrown)

PostCatch(error) == PostSettled("throw", error)

\* 25-35: the response is examined; a throw in the try goes to the catch
AfterPostFetch(net) ==
  IF net.kind = "reject" THEN PostCatch(net.thrown)
  ELSE IF ~ResponseOk(net.status)
    THEN PostCatch(ErrorOf(<<"HTTP ", ToString(net.status), ": ",
                             net.statusText>>))
  ELSE PostSettled("return", NoThrown)

PostInit ==
  /\ purl \in WebhookUrls /\ pmsg \in PostMessages
  /\ ppc = "call" /\ pfetches = << >>
  /\ pnet = PostNet("none", NoThrown, 0, "") /\ pout = PostPending

\* 17-23: the request is issued
PostCall ==
  /\ ppc = "call"
  /\ pfetches' = Append(pfetches, PostRequest(purl, pmsg))
  /\ ppc' = "fetch"
  /\ UNCHANGED <<purl, pmsg, pnet, pout>>
  /\ UNCHANGED <<evalVars, passVars, extractVars, summarizeVars,
                 triggerVars, formatVars, messageVars, storageVars,
                 repeatVars, alarmVars>>

\* 25-39: the fetch settles and postToSlack returns or throws
PostSettle ==
  /\ ppc = "fetch"
  /\ \E net \in PostNetOutcomes :
       /\ pnet' = net
       /\ pout' = AfterPostFetch(net)
  /\ ppc' = "done"
  /\ UNCHANGED <<purl, pmsg, pfetches>>
  /\ UNCHANGED <<evalVars, passVars, extractVars, summarizeVars,
                 triggerVars, formatVars, messageVars, storageVars,
                 repeatVars, alarmVars>>

PostNext == PostCall \/ PostSettle

(***************************************************************************)
(* formatSlackMessage as a function of its arguments (summarizer.ts        *)
(* 139-161)                                                                *)
(***************************************************************************)
FormatTitles == {"", "title-1", "A  title: with, punctuation"}

FormatUrls == {"https://example.com/1", "https://example.com/a?b=c#d"}

FormatModels == {"gpt-4o-mini", "local/model"}

\* the summaries the function is applied to: none, one, two, three and
\* more than three non-blank lines, with blank and whitespace-only lines,
\* with carriage returns and with padded lines
FormatSummaries ==
  {"", "   ", "only.", "s1\ns2\ns3", "s1\n\n  \ns2",
   "\n\ns1\n\t\ns2\n\ns3\ns4\ns5", "s1\r\ns2\r\n\r\ns3", "  s1  \ns2",
   "s1\ns2\ns3\ns4"}

FormatInit ==
  /\ fmTitle \in FormatTitles /\ fmUrl \in FormatUrls
  /\ fmModel \in FormatModels /\ fmSummary \in FormatSummaries
  /\ fmpc = "call" /\ fmOut = << >>

\* 139-161: the call returns
FormatMessage ==
  /\ fmpc = "call"
  /\ fmOut' = formatSlackMessage(fmTitle, fmUrl, fmModel, fmSummary)
  /\ fmpc' = "done"
  /\ UNCHANGED <<fmTitle, fmUrl, fmModel, fmSummary>>
  /\ UNCHANGED <<evalVars, passVars, extractVars, summarizeVars,
                 triggerVars, postVars, messageVars, storageVars,
                 repeatVars, alarmVars>>

FormatNext == FormatMessage

(***************************************************************************)
(* The runtime.onMessage listener (background.ts 16-126)                   *)
(***************************************************************************)
MessageRequest(type, url) == [type |-> type, url |-> url]

MessageTypes ==
  {"EXTRACT_CONTENT", "SUMMARIZE_TEST", "MANUAL_EXECUTE", "UNKNOWN_MESSAGE"}

MessageUrls ==
  {"https://example.com/1", "https://example.com/2", "https://example.com/3"}

\* the stored keys the two handlers read
MessageStorageResults ==
  {r \in StorageResults :
     /\ r.daysUntilRead = << >> /\ r.daysUntilDelete = << >>
     /\ r.maxEntriesPerRun = << >> /\ r.slackWebhookUrl = ""}

\* what sendResponse is called with
Response(success, error, body) ==
  [success |-> success, error |-> error, body |-> body]

\* "Firecrawl API kii ga settei sarete imasen. ..." (74)
FIRECRAWL_KEY_UNSET_MSG == <<"firecrawl-key-not-set-save-settings-first">>

\* "OpenAI settei ... ga fukanzen desu. ..." (106)
OPENAI_SETTINGS_INCOMPLETE_MSG ==
  <<"openai-settings-incomplete-save-settings-first">>

\* the listener's return value and the handler it starts (27-55)
Dispatch(type) ==
  CASE type = "EXTRACT_CONTENT" ->
         [ret |-> "true", handler |-> "handleExtractContentMessage"]
    [] type = "SUMMARIZE_TEST" ->
         [ret |-> "true", handler |-> "handleSummarizeTestMessage"]
    [] OTHER -> [ret |-> "false", handler |-> "done"]

MessageInit ==
  /\ mreq \in {MessageRequest(t, u) : t \in MessageTypes, u \in MessageUrls}
  /\ mpc = "listen" /\ mret = "none" /\ msettings = DEFAULT_SETTINGS
  /\ mresp = << >> /\ mpasses = 0

\* 20-56: the listener runs and returns
Listen ==
  /\ mpc = "listen"
  /\ mret' = Dispatch(mreq.type).ret
  /\ mpc' = Dispatch(mreq.type).handler
  /\ UNCHANGED <<mreq, msettings, mresp, mpasses>>
  /\ UNCHANGED <<evalVars, passVars, extractVars, summarizeVars,
                 triggerVars, postVars, formatVars, storageVars,
                 repeatVars, alarmVars>>

\* handleExtractContentMessage (64-85) settles and .then(sendResponse) runs
\* (28-29); the handler catches whatever its body throws, so the .catch at
\* 30-35 has nothing to catch
ExtractContentResponds ==
  /\ mpc = "handleExtractContentMessage"
  /\ \E result \in MessageStorageResults, run \in PassExtractRuns :
       LET st == getSettings(result).value
           r == ExtractSettle(RetryFrom(run, 1, NoThrown).out)
       IN /\ msettings' = st
          /\ mresp' = Append(mresp,
               IF st.firecrawlApiKey = ""
                 THEN Response(FALSE, FIRECRAWL_KEY_UNSET_MSG, "")
                 ELSE Response(r.success, r.error, r.content))
  /\ mpc' = "done"
  /\ UNCHANGED <<mreq, mret, mpasses>>
  /\ UNCHANGED <<evalVars, passVars, extractVars, summarizeVars,
                 triggerVars, postVars, formatVars, storageVars,
                 repeatVars, alarmVars>>

\* handleSummarizeTestMessage (90-123) settles and .then(sendResponse) runs
\* (40-45)
SummarizeTestResponds ==
  /\ mpc = "handleSummarizeTestMessage"
  /\ \E result \in MessageStorageResults, cs \in PassCompletionRuns :
       LET st == getSettings(result).value
           r == SumFrom(cs, 1)
       IN /\ msettings' = st
          /\ mresp' = Append(mresp,
               IF st.openaiEndpoint = "" \/ st.openaiApiKey = ""
                    \/ st.openaiModel = ""
                 THEN Response(FALSE, OPENAI_SETTINGS_INCOMPLETE_MSG, "")
                 ELSE Response(r.success, r.error, r.summary))
  /\ mpc' = "done"
  /\ UNCHANGED <<mreq, mret, mpasses>>
  /\ UNCHANGED <<evalVars, passVars, extractVars, summarizeVars,
                 triggerVars, postVars, formatVars, storageVars,
                 repeatVars, alarmVars>>

MessageNext == Listen \/ ExtractContentResponds \/ SummarizeTestResponds

(***************************************************************************)
(* Passes run one after the other (alarm.ts 71-76 with a period longer     *)
(* than a pass): each started after the one before has returned            *)
(***************************************************************************)
\* days that can pass between the end of a pass and the start of the next
ElapsedDays == {0, 2, 4}

\* the store d days later: every stored time is d days further in the past
\* of the next pass's Date.now(), which the model keeps at PassNow
Aged(l, d) ==
  [i \in DOMAIN l |->
     [l[i] EXCEPT !.creationTime = @ - d * MS_PER_DAY,
                  !.lastUpdateTime = @ - d * MS_PER_DAY]]

\* the calls of markAsReadAndNotify after its updateEntry (208-302, 322)
NotifyOps ==
  {"extractAttempt", "extractContent", "completions.create",
   "summarizeContent", "postToSlack"}

\* the next alarm fires after the pass has returned: a new invocation of
\* processReadingListEntries (353) with nothing kept but the store
NextPass ==
  /\ pc = "done" /\ runs < MaxRuns
  /\ runs' = runs + 1
  /\ marked' = marked \cup
       {u \in Urls : \E k \in CallsFor("updateEntry", u) : log[k].ok}
  /\ notified' = notified \cup
       {u \in Urls : \E k \in CallsFor("postToSlack", u) : log[k].ok}
  /\ \E d \in ElapsedDays : list' = Aged(list, d)
  /\ settings' = DEFAULT_SETTINGS
  /\ entries' = << >> /\ toMark' = << >> /\ toDel' = << >>
  /\ pc' = "getSettings" /\ idx' = 0 /\ pending' = << >>
  /\ log' = << >> /\ raised' = FALSE
  /\ stored' = [rejected |-> TRUE, daysUntilRead |-> << >>,
                daysUntilDelete |-> << >>, maxEntriesPerRun |-> << >>,
                openaiEndpoint |-> "", openaiApiKey |-> "",
                openaiModel |-> "", slackWebhookUrl |-> "",
                firecrawlApiKey |-> ""]
  /\ UNCHANGED <<evalVars, extractVars, summarizeVars, triggerVars,
                 postVars, formatVars, messageVars, alarmVars>>

RepeatNext == PassNext \/ NextPass

(***************************************************************************)
(* Alarm registration and delivery (alarm.ts 5-77)                         *)
(***************************************************************************)
ALARM_NAME == "readingListAutoProcess"

\* A number of minutes, to one decimal place: whole + frac / 10.
Num(w, f) == [whole |-> w, frac |-> f]

\* DEFAULT_INTERVAL_MINUTES (part_012 15) and the literal 720 of alarm.ts
DEFAULT_INTERVAL_MINUTES == 720

SetupCalls == 1..MaxSetups

\* what the user can have stored under alarmIntervalMinutes: nothing, 60,
\* 1, 0, -5, 1.5, 0.5
StoredIntervals ==
  {<< >>, <<Num(60, 0)>>, <<Num(1, 0)>>, <<Num(0, 0)>>, <<Num(-5, 0)>>,
   <<Num(1, 5)>>, <<Num(0, 5)>>}

\* Number.isInteger(n), n < 1 and !n
IsInteger(n) == n.frac = 0

LessThanOne(n) == n.whole < 1

Falsy(n) == n.whole = 0 /\ n.frac = 0

\* getSettings (part_012 45-79), the key setupAlarm reads: the catch returns
\* DEFAULT_SETTINGS, a missing key is filled by ?? (66-67)
AlarmSettings(rejected, storedInterval) ==
  IF rejected
    THEN [alarmIntervalMinutes |-> Num(DEFAULT_INTERVAL_MINUTES, 0)]
    ELSE [alarmIntervalMinutes |->
            Nullish(storedInterval, Num(DEFAULT_INTERVAL_MINUTES, 0))]

\* validateSettings({alarmIntervalMinutes}) (part_012 166-173): has errors
IntervalErrors(n) == ~IsInteger(n) \/ LessThanOne(n)

\* setupAlarm 24-40: the interval, 720 when validation fails or the value
\* is falsy
IntervalMinutes_unvalidated(st) == st.alarmIntervalMinutes

IntervalMinutes(st) ==
  IF IntervalErrors(st.alarmIntervalMinutes) \/ Falsy(st.alarmIntervalMinutes)
    THEN Num(720, 0)
    ELSE st.alarmIntervalMinutes

\* alarm.name === ALARM_NAME (72)
StartsPass_anyAlarm(name) == TRUE

StartsPass(name) == name = ALARM_NAME

Alarm(name, delay, period) ==
  [name |-> name, delayInMinutes |-> delay, periodInMinutes |-> period]

\* chrome.alarms.clear(name) and chrome.alarms.create(name, info): an alarm
\* created under a name replaces the one registered under it
AlarmsClear(as, name) == {a \in as : a.name # name}

AlarmsCreate(as, a) == AlarmsClear(as, a.name) \cup {a}

AlarmInit ==
  /\ alarms = {} /\ acfg \in StoredIntervals
  /\ apc = [c \in SetupCalls |-> "idle"]
  /\ aint = [c \in SetupCalls |-> Num(0, 0)]
  /\ aread = [c \in SetupCalls |-> "none"]
  /\ adelivered = << >> /\ astarted = 0

\* onInstalled / onStartup (61-69): setupAlarm() is called and not awaited;
\* it runs up to await chrome.alarms.clear(ALARM_NAME) (21)
SetupCall ==
  /\ \E c \in SetupCalls :
       /\ apc[c] = "idle"
       /\ apc' = [apc EXCEPT ![c] = "clear"]
  /\ UNCHANGED <<alarms, acfg, aint, aread, adelivered, astarted>>
  /\ UNCHANGED <<evalVars, passVars, extractVars, summarizeVars,
                 triggerVars, postVars, formatVars, messageVars,
                 storageVars, repeatVars>>

\* the clear has taken effect and resolved; await getSettings() (26)
ClearSettles ==
  /\ \E c \in SetupCalls :
       /\ apc[c] = "clear"
       /\ alarms' = AlarmsClear(alarms, ALARM_NAME)
       /\ apc' = [apc EXCEPT ![c] = "getSettings"]
  /\ UNCHANGED <<acfg, aint, aread, adelivered, astarted>>
  /\ UNCHANGED <<evalVars, passVars, extractVars, summarizeVars,
                 triggerVars, postVars, formatVars, messageVars,
                 storageVars, repeatVars>>

\* getSettings has resolved, the storage read having succeeded or not; the
\* interval is chosen (27-40) and chrome.alarms.create is awaited (43)
SettingsSettle ==
  /\ \E c \in SetupCalls, rejected \in BOOLEAN :
       /\ apc[c] = "getSettings"
       /\ aread' = [aread EXCEPT
                      ![c] = IF rejected THEN "rejected" ELSE "ok"]
       /\ aint' = [aint EXCEPT
                     ![c] = IntervalMinutes(AlarmSettings(rejected, acfg))]
       /\ apc' = [apc EXCEPT ![c] = "create"]
  /\ UNCHANGED <<alarms, acfg, adelivered, astarted>>
  /\ UNCHANGED <<evalVars, passVars, extractVars, summarizeVars,
                 triggerVars, postVars, formatVars, messageVars,
                 storageVars, repeatVars>>

\* the create has taken effect and resolved (43-48)
CreateSettles ==
  /\ \E c \in SetupCalls :
       /\ apc[c] = "create"
       /\ alarms' = AlarmsCreate(alarms, Alarm(ALARM_NAME, 1, aint[c]))
       /\ apc' = [apc EXCEPT ![c] = "done"]
  /\ UNCHANGED <<acfg, aint, aread, adelivered, astarted>>
  /\ UNCHANGED <<evalVars, passVars, extractVars, summarizeVars,
                 triggerVars, postVars, formatVars, messageVars,
                 storageVars, repeatVars>>

\* chrome.alarms.onAlarm (71-76): a registered alarm of this name, or an
\* alarm of another name, is delivered to the listener
AlarmDelivered ==
  /\ Len(adelivered) < MaxFirings
  /\ \E name \in {ALARM_NAME, "otherAlarm"} :
       /\ name = ALARM_NAME => \E a \in alarms : a.name = name
       /\ adelivered' = Append(adelivered, name)
       /\ astarted' = IF StartsPass(name) THEN astarted + 1 ELSE astarted
  /\ UNCHANGED <<alarms, acfg, apc, aint, aread>>
  /\ UNCHANGED <<evalVars, passVars, extractVars, summarizeVars,
                 triggerVars, postVars, formatVars, messageVars,
                 storageVars, repeatVars>>

AlarmNext ==
  \/ SetupCall
  \/ ClearSettles
  \/ SettingsSettle
  \/ CreateSettles
  \/ AlarmDelivered

(***************************************************************************)
(* Specifications                                                          *)
(***************************************************************************)
EvalIdle ==
  /\ evNow = EvalNow /\ evDays = 1
  /\ evEntry = [hasBeenRead |-> FALSE, creationTime |-> EvalNow,
                lastUpdateTime |-> EvalNow]
  /\ evMark = FALSE /\ evMarkDone = FALSE
  /\ evDel = FALSE /\ evDelDone = FALSE

PassIdle ==
  /\ list = << >> /\ settings = DEFAULT_SETTINGS
  /\ entries = << >> /\ toMark = << >> /\ toDel = << >>
  /\ pc = "idle" /\ idx = 0 /\ pending = << >>
  /\ log = << >> /\ raised = FALSE

ExtractIdle ==
  /\ xurl = "" /\ xcfg = [provider |-> "tavily", apiKey |-> "", baseUrl |-> ""]
  /\ xpc = "idle" /\ attempt = 0 /\ lastError = NoThrown
  /\ opCalls = 0 /\ ops = << >> /\ nets = << >>
  /\ fetches = << >> /\ delays = << >>
  /\ retryOut = Pending /\ xout = NoResult

SumIdle ==
  /\ spc = "idle" /\ sattempt = 0 /\ scalls = 0
  /\ sresps = << >> /\ sdelays = << >> /\ sout = NoSumResult

TrigIdle ==
  /\ tpc = << >> /\ tleft = << >> /\ treq = << >> /\ tlast = << >>
  /\ tnth = << >>

\* before the pass has read the storage
StorageIdle ==
  stored = [rejected |-> TRUE, daysUntilRead |-> << >>,
            daysUntilDelete |-> << >>, maxEntriesPerRun |-> << >>,
            openaiEndpoint |-> "", openaiApiKey |-> "", openaiModel |-> "",
            slackWebhookUrl |-> "", firecrawlApiKey |-> ""]

AlarmIdle ==
  /\ alarms = {} /\ acfg = << >>
  /\ apc = [c \in 1..MaxSetups |-> "idle"]
  /\ aint = [c \in 1..MaxSetups |-> [whole |-> 0, frac |-> 0]]
  /\ aread = [c \in 1..MaxSetups |-> "none"]
  /\ adelivered = << >> /\ astarted = 0

RepeatIdle == runs = 1 /\ marked = {} /\ notified = {}

MessageIdle ==
  /\ mreq = MessageRequest("", "") /\ mpc = "idle" /\ mret = "none"
  /\ msettings = DEFAULT_SETTINGS /\ mresp = << >> /\ mpasses = 0

FormatIdle ==
  /\ fmTitle = "" /\ fmUrl = "" /\ fmModel = "" /\ fmSummary = ""
  /\ fmpc = "idle" /\ fmOut = << >>

PostIdle ==
  /\ purl = "" /\ pmsg = << >> /\ ppc = "idle" /\ pfetches = << >>
  /\ pnet = PostNet("none", NoThrown, 0, "") /\ pout = PostPending

EvalNext == EvalMarkAsRead \/ EvalDelete

InitEval == EvalInit /\ PassIdle /\ ExtractIdle /\ SumIdle /\ TrigIdle
  /\ PostIdle
  /\ FormatIdle
  /\ MessageIdle
  /\ StorageIdle
  /\ RepeatIdle
  /\ AlarmIdle

SpecEval == InitEval /\ [][EvalNext]_vars

InitExtract == ExtractInit /\ EvalIdle /\ PassIdle /\ SumIdle /\ TrigIdle
  /\ PostIdle
  /\ FormatIdle
  /\ MessageIdle
  /\ StorageIdle
  /\ RepeatIdle
  /\ AlarmIdle

SpecExtract == InitExtract /\ [][ExtractNext]_vars

Init == PassInit /\ EvalIdle /\ ExtractIdle /\ SumIdle /\ TrigIdle
  /\ PostIdle
  /\ FormatIdle
  /\ MessageIdle
  /\ StorageIdle
  /\ RepeatIdle
  /\ AlarmIdle

Next == PassNext

Spec == Init /\ [][Next]_vars

InitSummarize == SumInit /\ EvalIdle /\ PassIdle /\ ExtractIdle /\ TrigIdle
  /\ PostIdle
  /\ FormatIdle
  /\ MessageIdle
  /\ StorageIdle
  /\ RepeatIdle
  /\ AlarmIdle

SpecSummarize == InitSummarize /\ [][SumNext]_vars

InitTriggers == TrigInit /\ EvalIdle /\ PassIdle /\ ExtractIdle /\ SumIdle
  /\ PostIdle
  /\ FormatIdle
  /\ MessageIdle
  /\ StorageIdle
  /\ RepeatIdle
  /\ AlarmIdle

SpecTriggers == InitTriggers /\ [][TrigNext]_vars

InitPost == PostInit /\ EvalIdle /\ PassIdle /\ ExtractIdle /\ SumIdle
  /\ TrigIdle
  /\ FormatIdle
  /\ MessageIdle
  /\ StorageIdle
  /\ RepeatIdle
  /\ AlarmIdle

SpecPost == InitPost /\ [][PostNext]_vars

InitFormat == FormatInit /\ EvalIdle /\ PassIdle /\ ExtractIdle /\ SumIdle
  /\ TrigIdle
  /\ PostIdle
  /\ MessageIdle
  /\ StorageIdle
  /\ RepeatIdle
  /\ AlarmIdle

SpecFormat == InitFormat /\ [][FormatNext]_vars

InitMessages == MessageInit /\ EvalIdle /\ PassIdle /\ ExtractIdle
  /\ StorageIdle
  /\ RepeatIdle
  /\ AlarmIdle
  /\ SumIdle /\ TrigIdle /\ PostIdle /\ FormatIdle

SpecMessages == InitMessages /\ [][MessageNext]_vars

\* passes one after the other: MaxRuns passes over a reading list of at
\* most MaxEntries + 1 - MaxRuns entries
InitRepeat ==
  /\ PassInit /\ Len(list) + MaxRuns <= MaxEntries + 1
  /\ EvalIdle /\ ExtractIdle /\ SumIdle /\ TrigIdle /\ PostIdle
  /\ FormatIdle /\ MessageIdle /\ StorageIdle /\ RepeatIdle
  /\ AlarmIdle

SpecRepeat == InitRepeat /\ [][RepeatNext]_vars

\* the awaited calls of a pass settling: every step of a pass but its start
PassStep ==
  \/ LoadSettings
  \/ QueryAndPartition
  \/ MarkRead
  \/ ExtractDone
  \/ SummarizeDone
  \/ PostDone
  \/ RemoveDone

\* one pass over a reading list of fewer than MaxEntries entries, in which
\* every awaited call eventually returns or fails
InitLive == Init /\ Len(list) < MaxEntries

SpecLive == InitLive /\ [][Next]_vars /\ WF_vars(PassStep)

InitAlarm ==
  /\ AlarmInit /\ EvalIdle /\ PassIdle /\ ExtractIdle /\ SumIdle
  /\ TrigIdle /\ PostIdle /\ FormatIdle /\ MessageIdle /\ StorageIdle
  /\ RepeatIdle

SpecAlarm == InitAlarm /\ [][AlarmNext]_vars

\* either retry loop, run on its own
RetryNext == ExtractNext \/ SumNext

InitRetry ==
  /\ \/ ExtractInit /\ SumIdle
     \/ ExtractIdle /\ SumInit
  /\ EvalIdle /\ PassIdle /\ TrigIdle /\ PostIdle /\ FormatIdle
  /\ MessageIdle /\ StorageIdle /\ RepeatIdle /\ AlarmIdle

SpecRetry == InitRetry /\ [][RetryNext]_vars

(***************************************************************************)
(* Properties of the pass (checked under Spec)                             *)
(***************************************************************************)
Count(S) == Cardinality(S)

\* how many entries of entriesToMarkAsRead the read loop has reached so far
ReadsReached ==
  CASE pc = "markRead" -> idx - 1
    [] pc \in {"extract", "summarize", "post"} -> idx
    [] OTHER -> Len(toMark)

\* a failed step of the pipeline of url u, at position k of the log
FailedStepAt(k, u) == log[k].url = u /\ ~log[k].ok /\ log[k].op # "removeEntry"

\* C1: processReadingListEntries never rejects to its caller: whatever fails
\* (settings load, query, updateEntry, extraction, summarization, post,
\* removeEntry) the pass keeps a next step until it is done, and when it is
\* done every entry of entriesToMarkAsRead has had its updateEntry call and
\* every entry of entriesToDelete its removeEntry call.
C1_PassNeverRaises ==
  /\ raised = FALSE
  /\ pc # "done" => ENABLED Next
  /\ pc = "done" =>
       /\ \A k \in DOMAIN toMark : CallsFor("updateEntry", toMark[k].url) # {}
       /\ \A k \in DOMAIN toDel : CallsFor("removeEntry", toDel[k].url) # {}

C1_Witness ==
  /\ pc = "done"
  /\ \E k \in Calls("updateEntry") : ~log[k].ok
  /\ \E k \in Calls("postToSlack") : ~log[k].ok
  /\ \E k \in Calls("removeEntry") : ~log[k].ok

\* C2: within one pass a failure at any sub-step of one entry of
\* entriesToMarkAsRead never keeps the following entries from being
\* processed: the entries the loop has reached each have exactly one
\* updateEntry call, the others none yet, and once the loop is over every
\* entry has exactly one.
C2_ReadIsolation ==
  \A k \in DOMAIN toMark :
    Count(CallsFor("updateEntry", toMark[k].url)) =
      IF k <= ReadsReached THEN 1 ELSE 0

C2_Witness ==
  /\ pc = "done"
  /\ Len(toMark) >= 3
  /\ \E i \in Calls("updateEntry") : FailedStepAt(i, toMark[1].url)
  /\ \E i \in Calls("postToSlack") : FailedStepAt(i, toMark[2].url)
  /\ \E i \in Calls("updateEntry") : log[i].url = toMark[3].url /\ log[i].ok

\* C3 (the claim as stated): in one pass updateEntry is called on at most
\* maxEntriesPerRun entries, namely the first maxEntriesPerRun eligible
\* unread entries in query order.
C3_PerRunCap ==
  LET eligible == FilterToMark(entries, settings)
      cap == settings.maxEntriesPerRun
      firstN == {eligible[i].url : i \in 1..(IF Len(eligible) < cap
                                                THEN Len(eligible) ELSE cap)}
  IN /\ Count(Calls("updateEntry")) <= cap
     /\ \A k \in Calls("updateEntry") : log[k].url \in firstN

\* C4 (the claim as stated): a pass run with daysUntilDelete = -1 selects
\* no entry for deletion and never calls removeEntry.
C4_DeletionDisabled ==
  settings.daysUntilDelete = DELETION_DISABLED_VALUE =>
    toDel = << >> /\ Calls("removeEntry") = {}

(***************************************************************************)
(* Properties of the eligibility predicates (checked under SpecEval)       *)
(***************************************************************************)
\* C5: shouldMarkAsRead(entry, d) is false whenever the entry has been read;
\* for an unread entry it is true exactly when (now - creationTime) /
\* 86400000 >= d, that is when now - creationTime >= d * 86400000, the
\* boundary of equality included.
C5_ShouldMarkAsRead ==
  evMarkDone =>
    (evMark <=> /\ ~evEntry.hasBeenRead
                /\ evNow - evEntry.creationTime >= evDays * 86400000)

C5_Witness ==
  /\ evMarkDone /\ evMark
  /\ evNow - evEntry.creationTime = evDays * 86400000

\* C6: shouldDelete(entry, d) with d >= 1 is false whenever the entry is
\* unread; for a read entry it is true exactly when (now - lastUpdateTime) /
\* 86400000 >= d, the boundary of equality included; the age is taken from
\* lastUpdateTime, not from creationTime.
C6_ShouldDelete ==
  (evDelDone /\ evDays >= 1) =>
    (evDel <=> /\ evEntry.hasBeenRead
               /\ evNow - evEntry.lastUpdateTime >= evDays * 86400000)

C6_Witness ==
  /\ evDelDone /\ evDel /\ evDays >= 1
  /\ evNow - evEntry.lastUpdateTime = evDays * 86400000
  /\ evEntry.creationTime < evEntry.lastUpdateTime

(***************************************************************************)
(* Properties of the retry executor and of extractContent (SpecExtract)    *)
(***************************************************************************)
AllFailed == \A i \in DOMAIN ops : ~ops[i].ok

\* C7: an operation that fails on every attempt is invoked exactly
\* maxRetries = 3 times, and retryWithExponentialBackoff then throws the value
\* the third invocation threw, unchanged; it does not throw earlier.
C7_RetryExhaustion ==
  /\ opCalls = Len(ops) /\ opCalls <= 3
  /\ retryOut.kind = "throw" =>
       /\ opCalls = 3 /\ AllFailed
       /\ retryOut.thrown = ops[3].err
  /\ (Len(ops) = 3 /\ AllFailed) => retryOut.kind = "throw"

C7_Witness ==
  /\ retryOut.kind = "throw"
  /\ ops[1].err # ops[3].err
  /\ ops[2].err # ops[3].err

\* C8: when the operation first succeeds on attempt k, the executor returns
\* that attempt's value after exactly k invocations and k-1 backoff delays
\* (1000 ms, then 2000 ms), and the operation is not invoked again.
C8_RetryEarlySuccess ==
  retryOut.kind = "return" =>
    LET k == Len(ops) IN
      /\ k \in 1..3 /\ opCalls = k /\ attempt = k
      /\ ops[k].ok /\ \A i \in 1..(k - 1) : ~ops[i].ok
      /\ retryOut.content = ops[k].content /\ retryOut.title = ops[k].title
      /\ delays = SubSeq(<<1000, 2000>>, 1, k - 1)
      /\ ~ENABLED ExtractNext

C8_Witness ==
  /\ retryOut.kind = "return"
  /\ Len(ops) = 3 /\ delays = <<1000, 2000>>

\* C9: extractContent never rejects: once it has settled it has returned a
\* result, and every failure of the retry executor (a rejected fetch, a
\* non-2xx status, an empty body, an unparsable base URL, a thrown value that
\* is no Error) is returned as {success: false, error}.
C9_ExtractNeverThrows ==
  /\ xout.kind # "throw"
  /\ xpc = "done" =>
       /\ xout.kind = "return"
       /\ xout.success <=> retryOut.kind = "return"
       /\ retryOut.kind = "throw" =>
            /\ ~xout.success
            /\ xout.error = IF lastError.isError THEN lastError.message
                                                  ELSE <<lastError.value>>

C9_Witness ==
  /\ xpc = "done" /\ xout.kind = "return" /\ ~xout.success
  /\ ~lastError.isError /\ xout.error = <<"string error">>

EmptyBodyAt(i) ==
  /\ ops[i].fetched # << >>
  /\ nets[i].kind = "ok" /\ nets[i].body = ""

\* C11 (the claim as stated): with a Firecrawl baseUrl that cannot be parsed
\* extractContent returns the invalid-URL failure after a single attempt: no
\* second or third attempt, no backoff delay, no HTTP request, no default
\* base URL substituted.
C11_BadBaseUrlTerminal ==
  (xpc = "done" /\ xcfg.provider = "firecrawl"
     /\ xcfg.baseUrl \notin ParsableUrls) =>
    /\ xout = Result("return", FALSE, "", "", INVALID_URL_MSG)
    /\ fetches = << >>
    /\ opCalls = 1 /\ delays = << >>

\* C12 (the claim as stated): a 2xx answer without body text fails the
\* attempt and is retried, and when all 3 attempts get such an answer
\* extractContent returns the failure "extracted body is empty".
C12_EmptyBodyMessage ==
  /\ \A i \in DOMAIN ops : EmptyBodyAt(i) => ~ops[i].ok
  /\ (xpc = "done" /\ Len(ops) = 3 /\ \A i \in 1..3 : EmptyBodyAt(i)) =>
       xout = Result("return", FALSE, "", "", EMPTY_BODY_MSG)

\* C12 (amended): a 2xx answer without body text fails the attempt, which is
\* retried like any failure; extractContent never returns a success with
\* empty content; when all 3 attempts get such an answer the result is a
\* failure whose error is "extracted body is empty", except that for Tavily
\* a failed_results[0].error in the last answer is the error instead.
C12_EmptyBodyRetried ==
  /\ \A i \in DOMAIN ops :
       EmptyBodyAt(i) =>
         /\ ~ops[i].ok
         /\ (i < 3 /\ xpc = "done") => Len(ops) > i
  /\ (xpc = "done" /\ xout.success) => xout.content # ""
  /\ (xpc = "done" /\ Len(ops) = 3 /\ \A i \in 1..3 : EmptyBodyAt(i)) =>
       /\ Len(delays) = 2
       /\ xout = Result("return", FALSE, "", "",
                   IF xcfg.provider = "tavily" /\ nets[3].failed # ""
                     THEN <<nets[3].failed>> ELSE EMPTY_BODY_MSG)

C12_Witness ==
  /\ xpc = "done" /\ Len(ops) = 3 /\ \A i \in 1..3 : EmptyBodyAt(i)
  /\ xcfg.provider = "tavily" /\ nets[1].failed = "" /\ nets[3].failed # ""
  /\ xout.error = <<"fetch failed for url">>

(***************************************************************************)
(* Properties of summarizeContent (checked under SpecSummarize)            *)
(***************************************************************************)
\* a completion that carries summary text
UsableCompletion(c) ==
  c.kind = "ok" /\ c.hasContent /\ c.content \notin {"", "   ", " \n "}

\* C13: the retryCount of a SummarizeResult is the 1-based number of the
\* attempt at which the loop ended, the first attempt with a usable
\* completion or else the third, so it lies in 1..3, and it equals the
\* number of completion-API calls made.
C13_RetryCount ==
  spc = "done" =>
    /\ sout.retryCount \in 1..3
    /\ sout.retryCount = sattempt
    /\ sout.retryCount = scalls /\ scalls = Len(sresps)
    /\ \A i \in 1..(scalls - 1) : ~UsableCompletion(sresps[i])
    /\ sout.success <=> UsableCompletion(sresps[scalls])
    /\ ~sout.success => sout.retryCount = 3

C13_Witness ==
  /\ spc = "done" /\ sout.success /\ sout.retryCount = 2
  /\ sresps[1].kind = "reject"

\* C14: when all 3 completion attempts fail, summarizeContent returns
\* {success: false} after exactly 3 completion-API calls, with retryCount 3
\* and with the message of the third attempt's error, verbatim, as error.
C14_SummarizerExhaustion ==
  (spc = "done" /\ \A i \in DOMAIN sresps : ~UsableCompletion(sresps[i])) =>
    /\ scalls = 3 /\ Len(sdelays) = 2
    /\ sout.kind = "return" /\ ~sout.success /\ sout.summary = ""
    /\ sout.retryCount = 3
    /\ sout.error =
         IF sresps[3].kind = "ok" THEN EMPTY_SUMMARY_MSG
         ELSE IF sresps[3].thrown.isError THEN sresps[3].thrown.message
         ELSE <<sresps[3].thrown.value>>

C14_Witness ==
  /\ spc = "done" /\ ~sout.success
  /\ sresps[1].thrown = ErrorOf(<<"API Error">>)
  /\ sresps[2].kind = "ok"
  /\ sresps[3].thrown = ErrorOf(<<"Rate limit exceeded">>)
  /\ sout.error = <<"Rate limit exceeded">>

\* C15: summarizeContent never rejects: a rejected completion call or an
\* empty completion on any attempt is caught, and once the attempts are used
\* up the call returns the {success: false} variant.
C15_SummarizeNeverThrows ==
  /\ sout.kind # "throw"
  /\ spc = "done" =>
       /\ sout.kind = "return"
       /\ (\A i \in DOMAIN sresps : ~UsableCompletion(sresps[i])) =>
            ~sout.success /\ sout.error # << >>

C15_Witness ==
  /\ spc = "done" /\ sout.kind = "return" /\ ~sout.success
  /\ sresps[1].kind = "ok" /\ ~sresps[1].hasContent
  /\ sresps[3].thrown = NonError("string error")
  /\ sout.error = <<"string error">>

(***************************************************************************)
(* Properties of the per-entry pipeline (checked under Spec)               *)
(***************************************************************************)
\* the entries of entriesToMarkAsRead whose iteration of the read loop is over
FinishedReads ==
  {toMark[k].url :
     k \in 1..(IF pc \in {"markRead", "extract", "summarize", "post"}
                 THEN idx - 1 ELSE Len(toMark))}

MarkedOk(u) == \E k \in CallsFor("updateEntry", u) : log[k].ok

ExtractedOk(u) == \E k \in CallsFor("extractContent", u) : log[k].ok

ExtractFailed(u) == \E k \in CallsFor("extractContent", u) : ~log[k].ok

SummarizedOk(u) == \E k \in CallsFor("summarizeContent", u) : log[k].ok

SummarizeFailed(u) == \E k \in CallsFor("summarizeContent", u) : ~log[k].ok

\* the head every notification about entry u starts with
NotificationHead(u) ==
  <<EntryTitle(u), "\n", EntryUrl(u), "\n\n", settings.openaiModel,
    " summary-header", "\n\n">>

SuccessNotification(u) ==
  NotificationHead(u) \o <<"s1", "\n\n", "s2", "\n\n", "s3">>

FailureNotification(u, error) ==
  NotificationHead(u) \o <<"summary-generation-failed: ">> \o error
    \o <<"\n\n\n">>

OnePostWith(u, text) ==
  /\ Count(CallsFor("postToSlack", u)) = 1
  /\ \A k \in CallsFor("postToSlack", u) : log[k].kind = text

\* C16 (the claim as stated): for an entry whose updateEntry succeeded,
\* whenever extraction succeeds (at once, or at the third attempt after two
\* failures) the summarizer is invoked exactly once for the entry, and when
\* it succeeds exactly one success notification is posted for the entry.
C16_SummarizeOnExtractSuccess ==
  \A u \in FinishedReads :
    (MarkedOk(u) /\ ExtractedOk(u)) =>
      /\ Count(CallsFor("summarizeContent", u)) = 1
      /\ SummarizedOk(u) => OnePostWith(u, SuccessNotification(u))

\* C16 (amended): the same holds when the endpoint, the API key, the model
\* name and the webhook URL are all configured; when one of the four is
\* missing, a successful extraction is followed by no summarizer call and no
\* post for that entry.
C16_SummarizeWhenConfigured ==
  \A u \in FinishedReads :
    (MarkedOk(u) /\ ExtractedOk(u)) =>
      IF /\ settings.openaiEndpoint # "" /\ settings.openaiApiKey # ""
         /\ settings.openaiModel # "" /\ settings.slackWebhookUrl # ""
        THEN /\ Count(CallsFor("summarizeContent", u)) = 1
             /\ SummarizedOk(u) => OnePostWith(u, SuccessNotification(u))
        ELSE /\ CallsFor("summarizeContent", u) = {}
             /\ CallsFor("postToSlack", u) = {}

C16_Witness ==
  \E u \in FinishedReads :
    /\ MarkedOk(u) /\ ExtractedOk(u) /\ SummarizedOk(u)
    /\ Count(CallsFor("extractAttempt", u)) = 3
    /\ OnePostWith(u, SuccessNotification(u))

\* C17 (the claim as stated): when extraction fails for an entry the
\* summarizer is never invoked for it; exactly one failure notification
\* embedding the extraction error is posted if a webhook URL is configured,
\* and no post is made if none is configured.
C17_NotifyOnExtractFailure ==
  \A u \in FinishedReads :
    ExtractFailed(u) =>
      /\ CallsFor("summarizeContent", u) = {}
      /\ IF settings.slackWebhookUrl # ""
           THEN \A k \in CallsFor("extractContent", u) :
                  OnePostWith(u, FailureNotification(
                                   u, <<"extraction-failed: ">> \o log[k].kind))
           ELSE CallsFor("postToSlack", u) = {}

\* C17 (amended): when extraction fails for an entry the summarizer is never
\* invoked for it; exactly one failure notification embedding the
\* extraction error is posted if both a webhook URL and a model name are
\* configured, and no post is made if either is missing.
C17_NotifyNeedsModel ==
  \A u \in FinishedReads :
    ExtractFailed(u) =>
      /\ CallsFor("summarizeContent", u) = {}
      /\ IF settings.slackWebhookUrl # "" /\ settings.openaiModel # ""
           THEN \A k \in CallsFor("extractContent", u) :
                  OnePostWith(u, FailureNotification(
                                   u, <<"extraction-failed: ">> \o log[k].kind))
           ELSE CallsFor("postToSlack", u) = {}

C17_Witness ==
  \E u \in FinishedReads :
    /\ ExtractFailed(u)
    /\ settings.openaiEndpoint = ""
    /\ OnePostWith(u, FailureNotification(
                        u, <<"extraction-failed: ", "API timeout">>))

\* C18: when summarization fails for an entry and a webhook is configured,
\* exactly one failure notification carrying the summarizer's error is
\* posted; when no webhook is configured no post call is made at all, every
\* entry whose updateEntry succeeded is still marked read, and the pass
\* completes without raising.
C18_NotifyOnSummarizeFailure ==
  /\ \A u \in FinishedReads :
       \A k \in CallsFor("summarizeContent", u) :
         ~log[k].ok =>
           /\ settings.slackWebhookUrl # ""
           /\ log[k].kind # << >>
           /\ OnePostWith(u, FailureNotification(u, log[k].kind))
  /\ settings.slackWebhookUrl = "" =>
       /\ Calls("postToSlack") = {}
       /\ raised = FALSE
       /\ pc # "done" => ENABLED Next
       /\ \A i \in DOMAIN list :
            MarkedOk(list[i].url) => list[i].hasBeenRead

C18_Witness ==
  \E u \in FinishedReads :
    /\ MarkedOk(u) /\ ExtractedOk(u) /\ SummarizeFailed(u)
    /\ OnePostWith(u, FailureNotification(u, <<"API Error">>))

\* C19: if the reading-list query fails, the entry set of the pass is empty
\* and the pass makes no updateEntry, removeEntry, extraction, completion or
\* webhook call; it completes at once without raising.
C19_QueryFailureNoOp ==
  (\E k \in Calls("query") : ~log[k].ok) =>
    /\ entries = << >> /\ toMark = << >> /\ toDel = << >>
    /\ \A k \in DOMAIN log : log[k].op = "query"
    /\ pc = "done" /\ raised = FALSE

C19_Witness ==
  /\ \E k \in Calls("query") : ~log[k].ok
  /\ pc = "done"
  /\ FilterToMark(list, settings) # << >>
  /\ FilterToDelete(list, settings) # << >>

(***************************************************************************)
(* Properties of overlapping passes (checked under SpecTriggers)           *)
(***************************************************************************)
\* the external requests pass p has in flight
InFlight(p) == {i \in DOMAIN treq[p] : treq[p][i] \in ExternalKinds}

AllInFlight == {<<p, i>> \in Passes \X (1..2) : i \in InFlight(p)}

RunningPasses == {p \in Passes : tpc[p] \notin {"idle", "done"}}

\* C20 (the claim as stated): at any moment at most one external request
\* (extraction, completion, webhook post, updateEntry, removeEntry) issued
\* by the core is in flight, however the alarm firings are scheduled.
C20_OneRequestInFlight == Cardinality(AllInFlight) <= 1

\* C20 (amended): each pass has at most one call in flight at any moment,
\* because it awaits every call before it issues the next; passes started
\* by alarm firings are not serialized, so the external requests in flight
\* are at most one per running pass, not one in all.
C20_OneRequestPerPass ==
  /\ \A p \in Passes : Len(treq[p]) <= 1
  /\ \A p \in Passes : tpc[p] \in {"idle", "done"} => treq[p] = << >>
  /\ Cardinality(AllInFlight) <= Cardinality(RunningPasses)

C20_Witness ==
  /\ treq[1] = <<"extractContent">>
  /\ treq[2] = <<"postToSlack">>

(***************************************************************************)
(* Properties of postToSlack (checked under SpecPost)                      *)
(***************************************************************************)
\* what postToSlack must have come to once the fetch answered net
PostOutcomeFor(net) ==
  CASE net.kind = "reject" -> PostSettled("throw", net.thrown)
    [] net.kind = "response" /\ net.status \notin 200..299 ->
         PostSettled("throw", ErrorOf(<<"HTTP ", ToString(net.status), ": ",
                                       net.statusText>>))
    [] OTHER -> PostSettled("return", NoThrown)

\* C21: postToSlack issues exactly one POST to the webhook URL, with the
\* JSON body {text: message} and content type application/json, and never
\* a second request; a non-2xx response makes it throw
\* "HTTP <status>: <statusText>", a rejected fetch is rethrown unchanged,
\* and a 2xx response makes it return.
C21_OnePost ==
  /\ Len(pfetches) <= 1
  /\ ppc = "call" => pfetches = << >>
  /\ ppc \in {"fetch", "done"} =>
       /\ Len(pfetches) = 1
       /\ pfetches[1].url = purl /\ pfetches[1].method = "POST"
       /\ pfetches[1].contentType = "application/json"
       /\ pfetches[1].body[1] = "{\"text\":\""
       /\ JsonParseText(pfetches[1].body) = pmsg
  /\ ppc = "done" <=> pout # PostPending
  /\ ppc = "done" => pout = PostOutcomeFor(pnet)

C21_Witness ==
  /\ ppc = "done" /\ pnet.status = 404 /\ pout.kind = "throw"
  /\ pout.thrown.message = <<"HTTP ", "404", ": ", "Not Found">>
  /\ Len(pfetches) = 1 /\ Len(pmsg) > 5

(***************************************************************************)
(* Properties of formatSlackMessage (checked under SpecFormat)             *)
(***************************************************************************)
\* a line with nothing but white space
OnlyWhiteSpace(line) == line \in {"", "  ", "   ", "\t", "\r"}

\* the non-blank lines among lines[i..], in order
RECURSIVE NonBlankFrom(_, _)
NonBlankFrom(lines, i) ==
  IF i > Len(lines) THEN << >>
  ELSE IF OnlyWhiteSpace(lines[i]) THEN NonBlankFrom(lines, i + 1)
  ELSE <<lines[i]>> \o NonBlankFrom(lines, i + 1)

\* the k-th non-blank line of the summary, "" when there is none
SectionOf(summary, k) ==
  LET nb == NonBlankFrom(SplitLines(summary), 1) IN
    IF k <= Len(nb) THEN nb[k] ELSE ""

\* C22: formatSlackMessage returns exactly title, url, a blank line, the
\* "<modelName> summary" header, a blank line and three sections separated
\* by blank lines, the sections being the first three non-blank lines of
\* the summary in order and "" where the summary has fewer; blank lines and
\* lines after the third non-blank one do not appear.
C22_SlackMessageFormat ==
  fmpc = "done" =>
    /\ fmOut = <<fmTitle, "\n", fmUrl, "\n\n", fmModel, " summary-header",
                 "\n\n", SectionOf(fmSummary, 1), "\n\n",
                 SectionOf(fmSummary, 2), "\n\n", SectionOf(fmSummary, 3)>>
    /\ fmSummary = "\n\ns1\n\t\ns2\n\ns3\ns4\ns5" =>
         <<fmOut[8], fmOut[10], fmOut[12]>> = <<"s1", "s2", "s3">>
    /\ fmSummary = "s1\n\n  \ns2" =>
         <<fmOut[8], fmOut[10], fmOut[12]>> = <<"s1", "s2", "">>
    /\ fmSummary \in {"", "   "} =>
         <<fmOut[8], fmOut[10], fmOut[12]>> = <<"", "", "">>

C22_Witness ==
  /\ fmpc = "done" /\ fmSummary = "\n\ns1\n\t\ns2\n\ns3\ns4\ns5"
  /\ fmOut[1] = "title-1" /\ fmOut[12] = "s3"

(***************************************************************************)
(* Properties of the message listener (checked under SpecMessages)         *)
(***************************************************************************)
\* C23: for a MANUAL_EXECUTE message the listener returns true, one
\* reconciliation pass is run, and once the handling is over the caller has
\* received exactly one response, {success: true} or {success: false,
\* error}.
C23_ManualExecuteResponds ==
  mreq.type = "MANUAL_EXECUTE" =>
    /\ mpc # "listen" => mret = "true"
    /\ mpc = "done" =>
         /\ mpasses = 1
         /\ Len(mresp) = 1
         /\ mresp[1].success \/ mresp[1].error # << >>

(***************************************************************************)
(* Properties of both retry loops (checked under SpecRetry)                *)
(***************************************************************************)
\* the delays waited so far are the first ones of 1000 ms, 2000 ms
DefaultSchedule(ds) ==
  /\ Len(ds) <= 2
  /\ \A k \in DOMAIN ds : ds[k] = <<1000, 2000>>[k]

\* C24: in retryWithExponentialBackoff and in summarizeContent alike, the
\* k-th delay is waited after the k-th failed attempt and before attempt
\* k + 1 and lasts baseDelay * 2^(k-1), 1000 ms then 2000 ms; nothing is
\* waited before attempt 1, and nothing after the last failed attempt.
C24_BackoffSchedule ==
  /\ DefaultSchedule(delays) /\ DefaultSchedule(sdelays)
  /\ \A k \in DOMAIN delays :
       /\ ~ops[k].ok /\ k < MAX_RETRIES
       /\ delays[k] = BASE_DELAY * 2 ^ (k - 1)
  /\ \A k \in DOMAIN sdelays :
       /\ ~TrySummarize(sresps[k]).ok /\ k < SUMMARY_MAX_RETRIES
       /\ sdelays[k] = SUMMARY_BASE_DELAY * 2 ^ (k - 1)
  /\ xpc \in {"idle", "call"} => delays = << >>
  /\ xpc = "attempt" => Len(delays) = attempt - 1 /\ Len(ops) = attempt - 1
  /\ xpc \in {"delay", "done"} =>
       Len(delays) = attempt - 1 /\ Len(ops) = attempt
  /\ spc \in {"idle", "call"} => sdelays = << >>
  /\ spc = "attempt" =>
       Len(sdelays) = sattempt - 1 /\ Len(sresps) = sattempt - 1
  /\ spc \in {"delay", "done"} =>
       Len(sdelays) = sattempt - 1 /\ Len(sresps) = sattempt
  /\ xpc = "done" /\ retryOut.kind = "throw" =>
       Len(ops) = MAX_RETRIES /\ delays = <<1000, 2000>>
  /\ spc = "done" /\ ~sout.success =>
       Len(sresps) = SUMMARY_MAX_RETRIES /\ sdelays = <<1000, 2000>>

C24_Witness ==
  /\ spc = "done" /\ ~sout.success /\ Len(sresps) = 3
  /\ sdelays = <<1000, 2000>>

(***************************************************************************)
(* Properties of the two loops of a pass (checked under Spec)              *)
(***************************************************************************)
PipelineOps ==
  {"extractAttempt", "extractContent", "completions.create",
   "summarizeContent", "postToSlack"}

\* the pass is about to make, or has just made, the first call of the entry
\* after position k of entriesToMarkAsRead: i is the log position of the
\* last call for entry k
NextAfterRead(k, i) ==
  IF i = Len(log)
    THEN IF k < Len(toMark) THEN pc = "markRead" /\ idx = k + 1
         ELSE pc \in {"remove", "done"}
    ELSE IF k < Len(toMark)
           THEN log[i + 1] =
                  LogEntry("updateEntry", toMark[k + 1].url, log[i + 1].ok,
                           << >>)
           ELSE log[i + 1].op = "removeEntry"

\* C25: when updateEntry rejects for an entry, the pass makes no extraction
\* attempt, no completion call and no webhook post for that entry, and its
\* next call is the updateEntry of the following entry of
\* entriesToMarkAsRead (or, after the last one, the deletion loop).
C25_FailedMarkSkipsPipeline ==
  \A k \in DOMAIN toMark :
    \A i \in CallsFor("updateEntry", toMark[k].url) :
      ~log[i].ok =>
        /\ \A op \in PipelineOps : CallsFor(op, toMark[k].url) = {}
        /\ NextAfterRead(k, i)

C25_Witness ==
  /\ pc = "done" /\ Len(toMark) >= 2
  /\ settings.firecrawlApiKey # ""
  /\ \E i \in CallsFor("updateEntry", toMark[1].url) : ~log[i].ok
  /\ CallsFor("extractContent", toMark[1].url) = {}
  /\ CallsFor("postToSlack", toMark[2].url) # {}

\* C26: in one pass removeEntry is called exactly once for every entry of
\* the snapshot that satisfies shouldDelete and for no other entry, whatever
\* maxEntriesPerRun is, and whether or not earlier removeEntry calls or
\* steps of the read loop failed; while the pass runs no entry has more
\* than one removeEntry call.
C26_EveryDeletionAttempted ==
  \A i \in DOMAIN entries :
    LET n == Count(CallsFor("removeEntry", entries[i].url))
        due == shouldDelete(entries[i], settings.daysUntilDelete, PassNow)
    IN /\ n <= 1
       /\ ~due => n = 0
       /\ pc = "done" /\ due => n = 1

C26_Witness ==
  /\ pc = "done" /\ settings.maxEntriesPerRun = 1
  /\ Count(Calls("removeEntry")) = 2
  /\ \E a, b \in Calls("removeEntry") : a < b /\ ~log[a].ok /\ log[b].ok
  /\ \E k \in Calls("updateEntry") : ~log[k].ok

\* the urls the calls of op were made for, in the order of the calls
UrlsCalled(op) ==
  LET cs == SelectSeq(log, LAMBDA c : c.op = op) IN
    [i \in 1..Len(cs) |-> cs[i].url]

\* the urls of the entries of the snapshot that satisfy P, in query order
UrlsWhere(P(_)) ==
  LET es == SelectSeq(entries, P) IN [i \in 1..Len(es) |-> es[i].url]

IsPrefix(a, b) == Len(a) <= Len(b) /\ \A i \in DOMAIN a : a[i] = b[i]

\* C29: the updateEntry calls of a pass are made in the order in which the
\* query returned the entries eligible for marking, and the removeEntry
\* calls in the order in which it returned the entries due for deletion:
\* at every moment the calls made so far are a prefix of that order, and
\* the whole of it once the pass is done.
C29_QueryOrder ==
  LET marks == UrlsWhere(LAMBDA e :
                 shouldMarkAsRead(e, settings.daysUntilRead, PassNow))
      dels == UrlsWhere(LAMBDA e :
                shouldDelete(e, settings.daysUntilDelete, PassNow))
  IN /\ IsPrefix(UrlsCalled("updateEntry"), marks)
     /\ IsPrefix(UrlsCalled("removeEntry"), dels)
     /\ pc = "done" =>
          UrlsCalled("updateEntry") = marks /\ UrlsCalled("removeEntry") = dels

C29_Witness ==
  /\ pc = "done"
  /\ UrlsCalled("updateEntry") = <<1, 3>>
  /\ UrlsCalled("removeEntry") = <<2>>
  /\ \E k \in Calls("updateEntry") : ~log[k].ok

(***************************************************************************)
(* Properties of extractContent results (checked under SpecExtract)        *)
(***************************************************************************)
\* text that is empty once trimmed
BlankText(text) == text \in {"", "   "}

\* C27: every ExtractContentResult with success = true has content that is
\* non-empty after trimming; an attempt whose answer has an empty or
\* whitespace-only body is a failed attempt.
C27_SuccessContentNonBlank ==
  /\ xout.success => ~BlankText(xout.content)
  /\ \A i \in DOMAIN ops :
       nets[i].kind = "ok" /\ BlankText(nets[i].body) => ~ops[i].ok

(***************************************************************************)
(* Empty completions (checked under SpecSummarize)                         *)
(***************************************************************************)
\* a response without summary text: no content, or only white space
BlankCompletion(c) == c.kind = "ok" /\ ~UsableCompletion(c)

\* attempt i failed and was handled as a failed attempt is: before the
\* last attempt the loop waits 1000 * 2^(i-1) ms and makes attempt i + 1,
\* at the last attempt summarizeContent returns the failure
HandledAsFailure(i) ==
  IF i < SUMMARY_MAX_RETRIES
    THEN \/ spc = "delay" /\ sattempt = i /\ Len(sdelays) = i - 1
         \/ /\ Len(sdelays) >= i /\ sdelays[i] = 1000 * 2 ^ (i - 1)
            /\ sattempt > i
    ELSE spc = "done" /\ ~sout.success /\ sout.retryCount = i

\* C28: an empty or whitespace-only completion fails its attempt like a
\* rejected call does: the loop waits the same backoff and tries again, the
\* error of that attempt is "summary result is empty", and when all 3
\* attempts get such a completion summarizeContent returns
\* {success: false, error: "summary result is empty", retryCount: 3}.
C28_EmptyCompletionFails ==
  /\ \A i \in DOMAIN sresps :
       /\ BlankCompletion(sresps[i]) \/ sresps[i].kind = "reject" =>
            HandledAsFailure(i)
       /\ BlankCompletion(sresps[i]) /\ i = SUMMARY_MAX_RETRIES =>
            sout = SumResult("return", FALSE, "", EMPTY_SUMMARY_MSG, 3)
  /\ sout.success => ~BlankCompletion(sresps[Len(sresps)])

C28_Witness ==
  /\ spc = "done" /\ Len(sresps) = 3
  /\ sresps[1].content = "   " /\ sresps[2].content = " \n "
  /\ sresps[3].kind = "ok" /\ ~sresps[3].hasContent
  /\ sdelays = <<1000, 2000>>
  /\ sout = SumResult("return", FALSE, "", EMPTY_SUMMARY_MSG, 3)

(***************************************************************************)
(* Entries of one pass do not overlap (checked under SpecTriggers)         *)
(***************************************************************************)
\* pass p takes the next entry of one of its loops in this step: its
\* updateEntry or removeEntry call is issued
StartsEntry(p) ==
  /\ tpc'[p] \in {"updateEntry", "removeEntry"}
  /\ tpc[p] # "query" => tleft'[p] # tleft[p]

MarkDue(e) == shouldMarkAsRead(e, settings.daysUntilRead, PassNow)

DeleteDue(e) == shouldDelete(e, settings.daysUntilDelete, PassNow)

\* the entries of the store with url u
Stored(u) == {i \in DOMAIN list : list[i].url = u}

SucceededFor(op, u) == \E k \in CallsFor(op, u) : log[k].ok

\* C31: the only mutations a pass issues to the reading-list store are
\* updateEntry(url, hasBeenRead: true) for snapshot entries that satisfy
\* shouldMarkAsRead and removeEntry(url) for snapshot entries that satisfy
\* shouldDelete; a snapshot entry that satisfies neither gets no call at
\* all and stays in the store as it was, and the store differs from the
\* snapshot only by the calls that succeeded.
C31_FrameCondition ==
  /\ \A k \in Calls("updateEntry") :
       \E i \in DOMAIN entries : entries[i].url = log[k].url
                                   /\ MarkDue(entries[i])
  /\ \A k \in Calls("removeEntry") :
       \E i \in DOMAIN entries : entries[i].url = log[k].url
                                   /\ DeleteDue(entries[i])
  /\ \A i \in DOMAIN entries :
       LET e == entries[i] IN
         /\ ~MarkDue(e) /\ ~DeleteDue(e) =>
              /\ \A k \in DOMAIN log : log[k].url # e.url
              /\ \E j \in Stored(e.url) : list[j] = e
         /\ Stored(e.url) = {} <=> SucceededFor("removeEntry", e.url)
         /\ \A j \in Stored(e.url) :
              IF SucceededFor("updateEntry", e.url)
                THEN list[j] = [e EXCEPT !.hasBeenRead = TRUE,
                                         !.lastUpdateTime = PassNow]
                ELSE list[j] = e

C31_Witness ==
  /\ pc = "done" /\ Len(entries) = 3
  /\ MarkDue(entries[1]) /\ SucceededFor("updateEntry", 1)
  /\ ~MarkDue(entries[2]) /\ ~DeleteDue(entries[2])
  /\ DeleteDue(entries[3]) /\ SucceededFor("removeEntry", 3)
  /\ Len(list) = 2

(***************************************************************************)
(* C32: getSettings never throws.  When the storage read is rejected the   *)
(* pass runs with DEFAULT_SETTINGS; when the read succeeds, a missing      *)
(* daysUntilRead, daysUntilDelete or maxEntriesPerRun is filled with its   *)
(* default (30, -1, 3) and every other key is taken as stored; in both     *)
(* cases the pass goes on to query the reading list with those values.     *)
(***************************************************************************)
SettingsLoaded == pc \notin {"idle", "getSettings"}

Queried == \E k \in DOMAIN log : log[k].op = "query"

OrDefault(opt, dflt) == IF Len(opt) = 0 THEN dflt ELSE opt[1]

C33_ManualTriggerStartsPass ==
  (mreq.type = "MANUAL_EXECUTE" /\ mpc # "listen") => mpasses >= 1

(***************************************************************************)
(* Properties of passes run one after the other (checked under SpecRepeat) *)
(***************************************************************************)
\* C34: across passes that do not overlap, an entry whose updateEntry
\* succeeded in an earlier pass is never selected for the read transition
\* again: no later pass calls updateEntry, the extractor, the summarizer or
\* the webhook for it, whether or not its notification went out.
C34_MarkedNeverReselected ==
  /\ \A i \in DOMAIN toMark : toMark[i].url \notin marked
  /\ \A k \in DOMAIN log :
       log[k].op \in NotifyOps \cup {"updateEntry"} =>
         log[k].url \notin marked
  /\ notified \subseteq marked

\* a second pass has finished over a snapshot holding an entry that an
\* earlier pass marked read without notifying, and it marked another entry
C34_Witness ==
  /\ runs = 2 /\ pc = "done"
  /\ \E i \in DOMAIN entries :
       entries[i].url \in marked \ notified
  /\ \E k \in Calls("updateEntry") : log[k].ok

(***************************************************************************)
(* Further properties of the pass (checked under Spec)                     *)
(***************************************************************************)
UrlsOf(es) == {es[i].url : i \in DOMAIN es}

\* C35: within one pass the mark-as-read set and the delete set, both
\* computed from the same snapshot before any mutation, are disjoint: no
\* entry gets both an updateEntry and a removeEntry call in the pass, and an
\* entry marked read in the pass is still in the store while the pass runs
\* and when it ends.
C35_MarkDeleteDisjoint ==
  /\ UrlsOf(toMark) \cap UrlsOf(toDel) = {}
  /\ \A u \in Urls :
       CallsFor("updateEntry", u) = {} \/ CallsFor("removeEntry", u) = {}
  /\ \A u \in Urls : SucceededFor("updateEntry", u) => Stored(u) # {}

\* a finished pass marked one entry read and removed another
C35_Witness ==
  /\ pc = "done"
  /\ \E u \in Urls : SucceededFor("updateEntry", u)
  /\ \E u \in Urls : SucceededFor("removeEntry", u)
  /\ toMark # << >> /\ toDel # << >>

\* the webhook posts made for entry u, as positions of the log
PostsFor(u) == CallsFor("postToSlack", u)

\* a failure notification about entry u
IsFailureNote(u, text) ==
  IsPrefix(NotificationHead(u) \o <<"summary-generation-failed: ">>, text)

\* ... reporting that the extraction failed
IsExtractionFailureNote(u, text) ==
  IsPrefix(NotificationHead(u) \o
             <<"summary-generation-failed: ", "extraction-failed: ">>, text)

\* C36: at most one webhook POST is issued per entry per pass.  The one
\* post is a success notification (after a successful summary), or a
\* failure notification for a failed extraction (the summarizer was then
\* never called), or a failure notification for a failed summarization,
\* never two of them; entries of the delete set get no post.
C36_OnePostPerEntry ==
  /\ \A u \in Urls :
       /\ Count(PostsFor(u)) <= 1
       /\ \A k \in PostsFor(u) :
            \/ /\ log[k].kind = SuccessNotification(u)
               /\ ExtractedOk(u) /\ SummarizedOk(u)
            \/ /\ IsExtractionFailureNote(u, log[k].kind)
               /\ ExtractFailed(u) /\ CallsFor("summarizeContent", u) = {}
            \/ /\ IsFailureNote(u, log[k].kind)
               /\ ~IsExtractionFailureNote(u, log[k].kind)
               /\ ExtractedOk(u) /\ SummarizeFailed(u)
  /\ \A i \in DOMAIN toDel : PostsFor(toDel[i].url) = {}

\* a finished pass posted a success notification for one entry, an
\* extraction-failure notification for another, and removed a third
C36_Witness ==
  /\ pc = "done"
  /\ \E u, v \in Urls :
       /\ \E k \in PostsFor(u) : log[k].kind = SuccessNotification(u)
       /\ \E k \in PostsFor(v) : IsExtractionFailureNote(v, log[k].kind)
  /\ \E w \in UrlsOf(toDel) : CallsFor("removeEntry", w) # {}

\* the calls of the read phase: updateEntry and the pipeline after it
ReadPhaseOps == PipelineOps \cup {"updateEntry"}

\* C37: within a pass every read transition, with its whole
\* extract-summarize-notify pipeline, is over before the first removeEntry
\* call is issued: once the pass is in its deletion loop every entry of the
\* mark-as-read set has had its updateEntry call, and no call of the read
\* phase comes after a removeEntry call.
C37_ReadsBeforeDeletes ==
  /\ \A i, j \in DOMAIN log :
       (log[i].op = "removeEntry" /\ log[j].op \in ReadPhaseOps) => j < i
  /\ (pc = "remove" \/ Calls("removeEntry") # {}) =>
       /\ \A k \in DOMAIN toMark : CallsFor("updateEntry", toMark[k].url) # {}
       /\ pending = << >>
       /\ pc \in {"remove", "done"}

\* a finished pass whose log ends with a removeEntry call made after a
\* webhook post of the read phase
C37_Witness ==
  /\ pc = "done" /\ Len(log) >= 2
  /\ log[Len(log)].op = "removeEntry"
  /\ log[Len(log) - 1].op = "postToSlack"

\* the provider requests and the completion calls made for entry u
AttemptsFor(u) == CallsFor("extractAttempt", u)

CompletionsFor(u) == CallsFor("completions.create", u)

\* C38: retry budgets are per call and never shared.  In a pass each entry
\* has at most 3 provider requests and at most 3 completion-API calls, and
\* each entry's counter starts at 1 whatever earlier entries consumed: an
\* extraction that is given up was given all 3 attempts, and so was a
\* summarization that is given up.
C38_BudgetPerEntry ==
  \A u \in Urls :
    /\ Count(AttemptsFor(u)) <= 3
    /\ Count(CompletionsFor(u)) <= 3
    /\ ExtractFailed(u) =>
         /\ Count(AttemptsFor(u)) = 3
         /\ \A k \in AttemptsFor(u) : ~log[k].ok
    /\ SummarizeFailed(u) =>
         /\ Count(CompletionsFor(u)) = 3
         /\ \A k \in CompletionsFor(u) : ~log[k].ok

\* after entry 1 used up all 3 provider requests, entry 2 made 3 provider
\* requests of its own and then 3 completion calls
C38_Witness ==
  /\ pc = "done"
  /\ Count(AttemptsFor(1)) = 3 /\ ExtractFailed(1)
  /\ Count(AttemptsFor(2)) = 3 /\ ExtractedOk(2)
  /\ Count(CompletionsFor(2)) = 3

(***************************************************************************)
(* Termination of a pass (checked under SpecLive)                          *)
(***************************************************************************)
\* C39: provided every external call eventually returns or fails, every
\* pass that was started eventually completes.
C39_PassTerminates == (pc = "getSettings") ~> (pc = "done")

\* a pass completed after the longest pipeline for one entry, three
\* provider requests and three completion calls, and a removal
C39_Witness ==
  /\ pc = "done"
  /\ \E u \in Urls :
       Count(AttemptsFor(u)) = 3 /\ Count(CompletionsFor(u)) = 3
  /\ Calls("removeEntry") # {}

(***************************************************************************)
(* Properties of the alarm registration (checked under SpecAlarm)          *)
(***************************************************************************)
OurAlarms == {a \in alarms : a.name = ALARM_NAME}

\* no setupAlarm call is in flight and at least one has run
SetupsSettled ==
  /\ \A c \in SetupCalls : apc[c] \in {"idle", "done"}
  /\ \E c \in SetupCalls : apc[c] = "done"

\* the period the stored alarmIntervalMinutes stands for: itself when it is
\* an integer >= 1, else 720
ConfiguredPeriod ==
  IF acfg # << >> /\ acfg[1].frac = 0 /\ acfg[1].whole >= 1
    THEN acfg[1]
    ELSE Num(720, 0)

\* the names delivered that are ALARM_NAME
OurDeliveries == {i \in DOMAIN adelivered : adelivered[i] = ALARM_NAME}

====
